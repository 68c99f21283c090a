---------------------------- MODULE DurableSteps ----------------------------
(***************************************************************************)
(* The inductive invariants of Durable, and what every step does to them,  *)
(* for any number of clients, workers, requests, event_ids and faults.     *)
(***************************************************************************)
EXTENDS Durable, TLAPS

-----------------------------------------------------------------------------
(* Numbers and sequences.                                                  *)

\* What is used of numbers and finite sets and follows by induction only;
\* DurableProofs derives it from the theorems of the library.
Arithmetic ==
  /\ \A S \in SUBSET Nat : S # {} => \E x \in S : \A y \in S : x <= y
  /\ \A n \in Nat : \A S \in SUBSET (1 .. n) : Cardinality(S) \in Nat
  /\ \A n, a, b \in Nat : \A f \in [1 .. n -> (1 .. a) \X (1 .. b)] :
       (\A i, j \in 1 .. n : f[i] = f[j] => i = j) => n <= a * b

\* The places of a sequence, of the stream and of the stored events alike, are
\* numbered from 1.
LEMMA SeqIs ==
  ASSUME NEW S, NEW s \in Seq(S)
  PROVE  Len(s) \in Nat /\ DOMAIN s = 1 .. Len(s) /\ \A i \in 1 .. Len(s) : s[i] \in S
OBVIOUS

\* XADD, and the insert of an event, add one element at the end.
LEMMA AppendIs ==
  ASSUME NEW S, NEW s \in Seq(S), NEW x \in S
  PROVE  /\ Append(s, x) \in Seq(S) /\ Len(Append(s, x)) = Len(s) + 1
         /\ Append(s, x)[Len(s) + 1] = x
         /\ \A i \in 1 .. Len(s) : Append(s, x)[i] = s[i]
OBVIOUS

\* A verdict is noted at one place.
LEMMA ExceptIs ==
  ASSUME NEW S, NEW s \in Seq(S), NEW i \in 1 .. Len(s), NEW x \in S
  PROVE  [s EXCEPT ![i] = x] \in Seq(S) /\ Len([s EXCEPT ![i] = x]) = Len(s)
OBVIOUS

\* Min names the least of the entries at hand, and the first of an entry's events.
LEMMA MinIs ==
  ASSUME Arithmetic, NEW S \in SUBSET Nat, S # {}
  PROVE  Min(S) \in S /\ \A y \in S : Min(S) <= y
<1>1. PICK x \in S : \A y \in S : x <= y
  BY Zenon DEF Arithmetic
<1> QED
  BY <1>1, Zenon DEF Min

-----------------------------------------------------------------------------
(* Types.                                                                  *)

BusyPc == {"strict", "reserve", "lookup", "open", "publish", "release", "receipt"}

Busy == [pc : BusyPc, req : Requests, i : Nat \ {0}, ticket : Tickets,
         dedup : BOOLEAN, tries : Nat, rejected : BOOLEAN]

Status == {"none", "expired", "accepted", "processing"} \cup Terminal

Outcome == Final \cup {"conflict"}

Task == [cmd : Command, origin : Tickets, ticket : Tickets \cup {NoTicket}]

Work == [pc : {"idle", "get", "save", "apply", "ack"}, todo : SUBSET (Nat \ {0}),
         mark : {"processing", "stored", "failed"}]

Event == [eid : STRING, key : Keys \cup {NoKey}, entry : Nat, value : Nat]

ClientType ==
  /\ client \in [Clients -> Busy \cup {IdleClient}]
  /\ started \in 0 .. MaxRequests
  /\ promised \subseteq Tickets

QueueType ==
  /\ stream \in Seq(Task)
  /\ delivered \in 0 .. Len(stream)
  /\ pel \subseteq 1 .. delivered
  /\ verdicts \in Seq(SUBSET Outcome) /\ Len(verdicts) = Len(stream)

\* What a worker holds has been delivered.
WorkerType ==
  /\ slot \in [Workers -> Nat] /\ worker \in [Workers -> Work]
  /\ \A w \in Workers : slot[w] <= delivered
  /\ \A w \in Workers : worker[w].todo \subseteq 1 .. delivered
  /\ \A w \in Workers : worker[w].todo = {} <=> worker[w].pc = "idle"

StoreType ==
  /\ idem \in [Keys -> Tickets \cup {NoTicket}]
  /\ tickets \in [Tickets -> Status]
  /\ events \in Seq(Event)
  /\ sampled \in Nat /\ faults \in Nat

\* Where a request may be: the item at hand exists, and it has an event_id
\* when it is about a reservation.
Sound(k) ==
  /\ k.pc = "receipt" => k.req.batch
  /\ k.pc # "receipt" => k.i <= Len(k.req.items)
  /\ k.pc = "open" => ~k.req.batch
  /\ k.pc \in {"reserve", "lookup"} => k.req.items[k.i].key # NoKey
  /\ k.dedup => /\ k.pc \in {"open", "publish", "release"}
                /\ k.req.items[k.i].key # NoKey
  /\ k.pc = "release" => k.dedup

ClientInv ==
  \A c \in Clients : client[c].pc # "idle" =>
    client[c].ticket <= started /\ Sound(client[c])

\* A ticket id is drawn once.
TicketsDrawnOnce ==
  \A c, d \in Clients : client[c].pc # "idle" /\ client[d].pc # "idle"
                        /\ client[c].ticket = client[d].ticket => c = d

\* The bounds on requests and faults are numbers; SetNX is tried at least once.
LEMMA Limits ==
  MaxRequests \in Nat /\ MaxFaults \in Nat /\ ReserveTries \in Nat \ {0}
BY DurableAssumption, Zenon

\* A client in the loop over a request's items is at one of its items.
LEMMA ItemType ==
  ASSUME ClientType, ClientInv, NEW c \in Clients,
         client[c].pc \notin {"idle", "receipt"}
  PROVE  /\ client[c] \in Busy
         /\ client[c].i \in 1 .. Len(client[c].req.items)
         /\ Item(c) \in Command
<1>1. client[c] \in Busy
  BY DEF ClientType, IdleClient
<1>2. client[c].req \in Requests
  BY <1>1, Zenon DEF Busy
<1>3. client[c].req \in Request
  BY <1>2, DurableAssumption, Zenon
<1>4. client[c].req.items \in Seq(Command) /\ client[c].i \in Nat \ {0}
  BY <1>1, <1>3, Zenon DEF Busy, Request
<1>5. client[c].i <= Len(client[c].req.items)
  BY Zenon DEF ClientInv, Sound
<1>6. client[c].i \in 1 .. Len(client[c].req.items)
  BY <1>4, <1>5, SeqIs
<1> QED
  BY <1>1, <1>4, <1>6, SeqIs, Zenon DEF Item

-----------------------------------------------------------------------------
(* What a client's step does to its request.                               *)

\* Where handling of an item begins: only a keyed item is reserved, and only a
\* single write opens a ticket of its own.
LEMMA EntryIs ==
  ASSUME NEW r \in Requests, NEW i \in 1 .. Len(r.items)
  PROVE  /\ Entry(r, i) \in {"strict", "reserve", "publish", "open"}
         /\ Entry(r, i) = "reserve" => r.items[i].key # NoKey
         /\ Entry(r, i) = "open" => ~r.batch
BY Zenon DEF Entry, EffectiveMode

\* The end of an item is the end of a single write and the beginning of the
\* next item of a batch.
LEMMA ItemDoneIs ==
  ASSUME ClientType, ClientInv, NEW c \in Clients,
         client[c].pc \notin {"idle", "receipt"},
         NEW a \in BOOLEAN, NEW t \in Tickets \cup {NoTicket}, ItemDone(c, a, t)
  PROVE  /\ client' = [client EXCEPT ![c] = client'[c]]
         /\ \/ ~client[c].req.batch /\ client'[c] = IdleClient
            \/ /\ client[c].req.batch /\ client'[c] \in Busy /\ Sound(client'[c])
               /\ client'[c].req = client[c].req
               /\ client'[c].ticket = client[c].ticket
               /\ client'[c].i = client[c].i + 1
               /\ client'[c].dedup = FALSE
         /\ promised' \subseteq Tickets
<1> DEFINE k == client[c]
           n == k.i + 1
           pc == IF n > Len(k.req.items) THEN "receipt" ELSE Entry(k.req, n)
           x == [k EXCEPT !.pc = pc, !.i = n, !.dedup = FALSE, !.tries = 0,
                          !.rejected = @ \/ ~a]
<1>1. k \in Busy /\ k.i \in 1 .. Len(k.req.items)
  BY ItemType, Zenon
<1>2. k.req \in Requests /\ k.req.items \in Seq(Command) /\ Len(k.req.items) \in Nat
  BY <1>1, DurableAssumption, SeqIs, Zenon DEF Busy, Request
<1>3. client' = [client EXCEPT ![c] = IF ~k.req.batch THEN IdleClient ELSE x]
  BY Zenon DEF ItemDone
<1>4. client'[c] = IF ~k.req.batch THEN IdleClient ELSE x
  BY <1>3, Zenon DEF ClientType
<1>5. client' = [client EXCEPT ![c] = client'[c]]
  BY <1>3, <1>4, Zenon
<1>6. promised' \subseteq Tickets
  BY Zenon DEF ItemDone, ClientType
<1>7. CASE ~k.req.batch
  BY <1>4, <1>5, <1>6, <1>7, Zenon
<1>8. CASE k.req.batch
  <2>1. n \in Nat \ {0} /\ (n <= Len(k.req.items) => n \in 1 .. Len(k.req.items))
    BY <1>1, <1>2
  <2>2. pc \in BusyPc
    BY <2>1, <1>2, EntryIs DEF BusyPc
  <2>3. pc # "receipt" => n <= Len(k.req.items)
    BY <2>1, <1>2
  <2>4. pc = "reserve" => k.req.items[n].key # NoKey
    BY <2>1, <1>2, EntryIs
  <2>5. pc \in {"receipt", "strict", "reserve", "publish"}
    BY <2>1, <1>2, <1>8, EntryIs
  <2> HIDE DEF pc, n
  <2>6. x \in Busy
    BY <1>1, <2>1, <2>2, Zenon DEF Busy
  <2>7. /\ x.req = k.req /\ x.ticket = k.ticket /\ x.i = n /\ x.pc = pc
        /\ x.dedup = FALSE
    BY <1>1, Zenon DEF Busy
  <2>8. Sound(x)
    BY <2>3, <2>4, <2>5, <2>7, <1>8, Zenon DEF Sound
  <2> QED
    BY <1>4, <1>5, <1>6, <1>8, <2>6, <2>7, <2>8, Zenon DEF n
<1> QED
  BY <1>7, <1>8, Zenon

\* The request at the same item with another program counter.
LEMMA GotoIs ==
  ASSUME ClientType, NEW c \in Clients, client[c].pc # "idle",
         NEW pc \in BusyPc, Goto(c, pc)
  PROVE  /\ client' = [client EXCEPT ![c] = client'[c]]
         /\ client'[c] \in Busy
         /\ client'[c] = [client[c] EXCEPT !.pc = pc]
         /\ client'[c].pc = pc /\ client'[c].req = client[c].req
         /\ client'[c].ticket = client[c].ticket /\ client'[c].i = client[c].i
         /\ client'[c].dedup = client[c].dedup
<1>1. client[c] \in Busy
  BY DEF ClientType, IdleClient
<1>2. client' = [client EXCEPT ![c] = [client[c] EXCEPT !.pc = pc]]
  BY Zenon DEF Goto
<1> DEFINE x == [client[c] EXCEPT !.pc = pc]
<1>3. client'[c] = x
  BY <1>2, Zenon DEF ClientType
<1>4. /\ x \in Busy /\ x.pc = pc /\ x.req = client[c].req /\ x.i = client[c].i
      /\ x.ticket = client[c].ticket /\ x.dedup = client[c].dedup
  BY <1>1, Zenon DEF Busy
<1> QED
  BY <1>2, <1>3, <1>4, Zenon

\* A client's step ends its request, goes on to the next item of a batch, or
\* moves within an item.
Serves(c) ==
  /\ client' = [client EXCEPT ![c] = client'[c]]
  /\ \/ client'[c] = IdleClient
     \/ /\ client'[c] \in Busy /\ Sound(client'[c])
        /\ client'[c].req = client[c].req
        /\ client'[c].ticket = client[c].ticket
        /\ \/ client[c].req.batch /\ client'[c].i = client[c].i + 1
           \/ /\ client'[c].i = client[c].i
              /\ client[c].pc # "release"
              /\ client[c].pc = "publish" => client'[c].pc = "release"
              /\ client'[c].pc \in {"strict", "reserve", "lookup", "open"} =>
                   client[c].pc \in {"reserve", "lookup"}
              /\ client'[c].pc = "publish" => client[c].req.batch \/ client[c].pc = "open"
  /\ promised' \subseteq Tickets
  /\ started' = started

\* The strict path serves the item at hand and goes to the next.
LEMMA StrictServes ==
  ASSUME ClientType, ClientInv, NEW c \in Clients, Strict(c)
  PROVE  Serves(c)
<1>1. client[c].pc \notin {"idle", "receipt"}
  BY Zenon DEF Strict
<1>2. ItemDone(c, Verdict(Item(c)) \in Succeeded, NoTicket) /\ started' = started
  BY Zenon DEF Strict
<1>3. (Verdict(Item(c)) \in Succeeded) \in BOOLEAN /\ NoTicket \in Tickets \cup {NoTicket}
  OBVIOUS
<1> QED
  BY <1>1, <1>2, <1>3, ItemDoneIs, Zenon DEF Serves

\* Answering the receipt ends the request.
LEMMA ReceiptServes ==
  ASSUME ClientType, ClientInv, NEW c \in Clients, Receipt(c)
  PROVE  Serves(c)
BY Zenon DEF Receipt, Serves, ClientType

\* Freeing the reservation ends the item as a failure.
LEMMA ReleaseServes ==
  ASSUME ClientType, ClientInv, NEW c \in Clients, Release(c)
  PROVE  Serves(c)
<1>1. client[c].pc \notin {"idle", "receipt"} /\ ItemDone(c, FALSE, NoTicket)
      /\ started' = started
  BY Zenon DEF Release
<1> QED
  BY <1>1, ItemDoneIs, Zenon DEF Serves

\* A failure before the entry is published frees the reservation or ends the
\* item.
LEMMA FailServes ==
  ASSUME ClientType, ClientInv, NEW c \in Clients, client[c].pc \in {"open", "publish"},
         Fail(c), started' = started
  PROVE  Serves(c)
<1>1. CASE ~client[c].dedup
  <2>1. ItemDone(c, FALSE, NoTicket)
    BY <1>1, Zenon DEF Fail
  <2> QED
    BY <2>1, ItemDoneIs, Zenon DEF Serves
<1>2. CASE client[c].dedup
  <2>1. Goto(c, "release") /\ promised' = promised
    BY <1>2, Zenon DEF Fail
  <2>2. Sound(client[c])
    BY Zenon DEF ClientInv
  <2>3. /\ client' = [client EXCEPT ![c] = client'[c]] /\ client'[c] \in Busy
        /\ client'[c].pc = "release" /\ client'[c].req = client[c].req
        /\ client'[c].ticket = client[c].ticket /\ client'[c].i = client[c].i
        /\ client'[c].dedup = client[c].dedup
    BY <2>1, GotoIs, Zenon DEF BusyPc
  <2>4. Sound(client'[c])
    BY <2>2, <2>3, <1>2, Zenon DEF Sound
  <2> QED
    BY <2>1, <2>3, <2>4, Zenon DEF Serves, ClientType
<1> QED
  BY <1>1, <1>2, Zenon

\* Saving a single write's ticket goes on to publish, or fails the item.
LEMMA OpenServes ==
  ASSUME ClientType, ClientInv, NEW c \in Clients, Open(c)
  PROVE  Serves(c)
<1>1. client[c].pc = "open" /\ started' = started
  BY Zenon DEF Open
<1>2. CASE Fail(c)
  BY <1>1, <1>2, FailServes, Zenon
<1>3. CASE Goto(c, "publish") /\ promised' = promised
  <2>1. Sound(client[c])
    BY <1>1, Zenon DEF ClientInv
  <2>2. /\ client' = [client EXCEPT ![c] = client'[c]] /\ client'[c] \in Busy
        /\ client'[c].pc = "publish" /\ client'[c].req = client[c].req
        /\ client'[c].ticket = client[c].ticket /\ client'[c].i = client[c].i
        /\ client'[c].dedup = client[c].dedup
    BY <1>1, <1>3, GotoIs, Zenon DEF BusyPc
  <2>3. Sound(client'[c])
    BY <1>1, <2>1, <2>2, Zenon DEF Sound
  <2> QED
    BY <1>1, <1>3, <2>2, <2>3, Zenon DEF Serves, ClientType
<1> QED
  BY <1>2, <1>3, Zenon DEF Open

\* Publishing ends the item, or fails it.
LEMMA PublishServes ==
  ASSUME ClientType, ClientInv, NEW c \in Clients, Publish(c)
  PROVE  Serves(c)
<1>1. client[c].pc = "publish" /\ started' = started
  BY Zenon DEF Publish
<1>2. CASE Fail(c)
  BY <1>1, <1>2, FailServes, Zenon
<1>3. CASE ItemDone(c, TRUE, client[c].ticket)
  <2>1. client[c].ticket \in Tickets
    BY <1>1, ItemType, Zenon DEF Busy
  <2> QED
    BY <1>1, <1>3, <2>1, ItemDoneIs, Zenon DEF Serves
<1> QED
  BY <1>2, <1>3, Zenon DEF Publish

\* A reservation step goes on within its item.
LEMMA UnreservedServes ==
  ASSUME ClientType, ClientInv, NEW c \in Clients, client[c].pc \in {"reserve", "lookup"},
         client' = [client EXCEPT ![c] = client'[c]], client'[c] \in Busy,
         client'[c].pc \in {Unreserved(c), "reserve", "lookup"},
         client'[c].req = client[c].req, client'[c].ticket = client[c].ticket,
         client'[c].i = client[c].i,
         client'[c].dedup => client'[c].pc = Unreserved(c),
         promised' = promised, started' = started
  PROVE  Serves(c)
<1>1. Sound(client[c])
  BY Zenon DEF ClientInv
<1>2. client[c].req.items[client[c].i].key # NoKey
  BY <1>1, Zenon DEF Sound
<1>3. Sound(client'[c])
  BY <1>1, <1>2, Zenon DEF Sound, Unreserved
<1> QED
  BY <1>3, Zenon DEF Serves, Unreserved, ClientType

\* Reserving the event_id goes on to the ticket, to the lookup or past the
\* dedup store.
LEMMA SetNXServes ==
  ASSUME ClientType, ClientInv, NEW c \in Clients, SetNX(c)
  PROVE  Serves(c)
<1>1. client[c].pc = "reserve" /\ started' = started /\ promised' = promised
  BY Zenon DEF SetNX
<1>2. client[c] \in Busy /\ Sound(client[c])
  BY <1>1, ItemType, Zenon DEF ClientInv
<1>3. Unreserved(c) \in BusyPc /\ "lookup" \in BusyPc
  BY Zenon DEF Unreserved, BusyPc
<1>4. ~client[c].dedup
  BY <1>1, <1>2, Zenon DEF Sound
<1>5. CASE Goto(c, "lookup") \/ Goto(c, Unreserved(c))
  BY <1>1, <1>3, <1>4, <1>5, GotoIs, UnreservedServes, Zenon
<1>6. CASE client' = [client EXCEPT ![c].pc = Unreserved(c), ![c].dedup = TRUE]
  <2> DEFINE x == [client[c] EXCEPT !.pc = Unreserved(c), !.dedup = TRUE]
  <2>1. client' = [client EXCEPT ![c] = x] /\ client'[c] = x
    BY <1>6, Zenon DEF ClientType
  <2>2. /\ x \in Busy /\ x.pc = Unreserved(c) /\ x.req = client[c].req
        /\ x.i = client[c].i /\ x.ticket = client[c].ticket
    BY <1>2, <1>3, Zenon DEF Busy
  <2> HIDE DEF x
  <2> QED
    BY <1>1, <2>1, <2>2, UnreservedServes, Zenon
<1> QED
  BY <1>5, <1>6, Zenon DEF SetNX

\* Looking up a taken event_id answers its ticket, tries again or gives up.
LEMMA LookupServes ==
  ASSUME ClientType, ClientInv, StoreType, NEW c \in Clients, Lookup(c)
  PROVE  Serves(c)
<1>1. client[c].pc = "lookup" /\ started' = started
  BY Zenon DEF Lookup
<1>2. client[c] \in Busy /\ Sound(client[c]) /\ Item(c) \in Command
  BY <1>1, ItemType, Zenon DEF ClientInv
<1>3. Unreserved(c) \in BusyPc
  BY Zenon DEF Unreserved, BusyPc
<1>4. ~client[c].dedup
  BY <1>1, <1>2, Zenon DEF Sound
<1>5. Item(c).key \in Keys
  BY <1>1, <1>2, Zenon DEF Sound, Item, Command
<1>6. CASE ItemDone(c, TRUE, idem[Item(c).key])
  <2>1. idem[Item(c).key] \in Tickets \cup {NoTicket}
    BY <1>5, Zenon DEF StoreType
  <2> QED
    BY <1>1, <1>6, <2>1, ItemDoneIs, Zenon DEF Serves
<1>7. CASE Goto(c, Unreserved(c)) /\ promised' = promised
  BY <1>1, <1>3, <1>4, <1>7, GotoIs, UnreservedServes, Zenon
<1> DEFINE tries == client[c].tries + 1
           pc == IF tries < ReserveTries THEN "reserve" ELSE Unreserved(c)
           x == [client[c] EXCEPT !.pc = pc, !.dedup = tries >= ReserveTries,
                                  !.tries = tries]
<1>8. CASE /\ client' = [client EXCEPT ![c].pc = pc,
                  ![c].dedup = tries >= ReserveTries, ![c].tries = tries]
           /\ promised' = promised
  <2>1. client' = [client EXCEPT ![c] = x] /\ client'[c] = x
    BY <1>8, Zenon DEF ClientType
  <2>2. tries \in Nat /\ ReserveTries \in Nat
    <3>1. client[c].tries \in Nat
      BY <1>2, Zenon DEF Busy
    <3> QED
      BY <3>1, Limits
  <2>3. (tries >= ReserveTries) \in BOOLEAN
    <3>1. CASE tries >= ReserveTries
      BY <3>1, Zenon
    <3>2. CASE ~(tries >= ReserveTries)
      BY <3>2
    <3> QED
      BY <3>1, <3>2, Zenon
  <2>4. pc \in BusyPc /\ (tries >= ReserveTries => pc = Unreserved(c))
        /\ pc \in {"reserve", Unreserved(c)}
    BY <1>3, <2>2 DEF BusyPc
  <2> HIDE DEF tries, pc
  <2>5. /\ x \in Busy /\ x.pc = pc /\ x.req = client[c].req
        /\ x.i = client[c].i /\ x.ticket = client[c].ticket
        /\ x.dedup = (tries >= ReserveTries)
    BY <1>2, <2>2, <2>3, <2>4, Zenon DEF Busy
  <2> HIDE DEF x
  <2> QED
    BY <1>1, <1>8, <2>1, <2>4, <2>5, UnreservedServes, Zenon
<1> QED
  BY <1>6, <1>7, <1>8, Zenon DEF Lookup

-----------------------------------------------------------------------------
(* The inductive invariant.                                                *)

\* The entries can be numbered so that an entry is known by its request and
\* its number, and no request has published an item it has not come to: the
\* ghost that bounds the stream and gives a ticket one entry.
Numbered(ix) ==
  /\ \A m \in Published : stream[m].origin <= started
  /\ \A m, n \in Published :
       stream[m].origin = stream[n].origin /\ ix[m] = ix[n] => m = n
  /\ \A m \in Published : stream[m].ticket # NoTicket =>
       stream[m].ticket = stream[m].origin /\ ix[m] = 1
  /\ \A m \in Published, c \in Clients :
       client[c].pc # "idle" /\ stream[m].origin = client[c].ticket =>
         \/ ix[m] < client[c].i
         \/ ix[m] = client[c].i /\ client[c].pc = "release"

NumberInv == \E ix \in [Published -> 1 .. MaxItems] : Numbered(ix)

Unopened(k) == k.req.batch \/ k.pc \in {"strict", "reserve", "lookup", "open"}

\* A ticket is opened once, and no worker marks it before its task ships.
TicketInv ==
  /\ \A t \in Tickets : t > started => tickets[t] = "none"
  /\ \A c \in Clients : client[c].pc # "idle" /\ Unopened(client[c])
                        => tickets[client[c].ticket] = "none"
  /\ \A c \in Clients : client[c].pc = "publish" /\ ~client[c].req.batch
                        => tickets[client[c].ticket] \in {"accepted", "expired"}

\* A worker about to mark a ticket as ended, or to acknowledge, has a verdict.
MarkInv ==
  \A w \in Workers : worker[w].pc # "idle" =>
    /\ worker[w].pc \in {"get", "save"} => Ticket(Current(w)) # NoTicket
    /\ worker[w].pc = "ack" => worker[w].mark # "processing"
    /\ worker[w].mark = "stored" => verdicts[Current(w)] \cap Succeeded # {}
    /\ worker[w].mark = "failed" => verdicts[Current(w)] \cap Permanent # {}

TypeOK == ClientType /\ QueueType /\ WorkerType /\ StoreType

IndInv ==
  /\ TypeOK /\ ClientInv /\ TicketsDrawnOnce /\ NumberInv /\ TicketInv /\ MarkInv
  /\ TicketsTellTheTruth /\ OneEventPerKey

-----------------------------------------------------------------------------
(* The clients.                                                            *)

\* Every call made for an item serves it.
LEMMA ServingServes ==
  ASSUME ClientType, ClientInv, StoreType, NEW c \in Clients, Serving(c)
  PROVE  Serves(c) /\ client[c].pc # "idle"
<1>1. client[c].pc # "idle"
  BY Zenon DEF Serving, Strict, SetNX, Lookup, Open, Publish, Release, Receipt
<1>2. Serves(c)
  BY StrictServes, SetNXServes, LookupServes, OpenServes, PublishServes,
     ReleaseServes, ReceiptServes, Zenon DEF Serving
<1> QED
  BY <1>1, <1>2, Zenon

\* Requests keep what is known of them when one of them moves on.
LEMMA ServesKeepsClients ==
  ASSUME ClientType, ClientInv, TicketsDrawnOnce, NEW c \in Clients,
         client[c].pc # "idle", Serves(c)
  PROVE  ClientType' /\ ClientInv' /\ TicketsDrawnOnce'
<1>1. \A d \in Clients : d # c => client'[d] = client[d]
  BY Zenon DEF Serves, ClientType
<1>2. client[c] \in Busy
  BY DEF ClientType, IdleClient
<1>3. client'[c] = IdleClient
      \/ (client'[c] \in Busy /\ Sound(client'[c]) /\ client'[c].ticket = client[c].ticket)
  BY Zenon DEF Serves
<1>4. ClientType'
  BY <1>3, Zenon DEF Serves, ClientType
<1>5. ClientInv'
  <2> SUFFICES ASSUME NEW d \in Clients, client'[d].pc # "idle"
               PROVE  client'[d].ticket <= started' /\ Sound(client'[d])
    BY Zenon DEF ClientInv, Sound
  <2>1. CASE d = c
    BY <2>1, <1>3 DEF IdleClient, Serves, ClientInv
  <2>2. CASE d # c
    BY <2>2, <1>1, Zenon DEF Serves, ClientInv
  <2> QED
    BY <2>1, <2>2, Zenon
<1>6. TicketsDrawnOnce'
  BY <1>1, <1>3 DEF TicketsDrawnOnce, IdleClient
<1> QED
  BY <1>4, <1>5, <1>6, Zenon

\* A new request has the next ticket id, which no request has drawn.
LEMMA BeginKeepsClients ==
  ASSUME ClientType, ClientInv, TicketsDrawnOnce, NEW c \in Clients, Begin(c)
  PROVE  /\ ClientType' /\ ClientInv' /\ TicketsDrawnOnce'
         /\ client' = [client EXCEPT ![c] = client'[c]]
         /\ client'[c].pc # "idle" =>
              client'[c] \in Busy /\ client'[c].ticket = started' /\ client'[c].i = 1
         /\ client'[c].pc = "publish" => client'[c].req.batch
         /\ client'[c].pc \notin {"release", "receipt"}
         /\ started' = started + 1
<1>1. PICK r \in Requests :
        client' = [client EXCEPT ![c] =
          IF ~Allow(r) THEN IdleClient
          ELSE [pc |-> Entry(r, 1), req |-> r, i |-> 1, ticket |-> started',
                dedup |-> FALSE, tries |-> 0, rejected |-> FALSE]]
  BY Zenon DEF Begin
<1> DEFINE x == [pc |-> Entry(r, 1), req |-> r, i |-> 1, ticket |-> started',
                 dedup |-> FALSE, tries |-> 0, rejected |-> FALSE]
<1>2. started' = started + 1 /\ started < MaxRequests /\ started \in Nat
  BY Limits DEF Begin, ClientType
<1>3. started' \in Tickets /\ started' \in 0 .. MaxRequests
  BY <1>2, Limits DEF Tickets
<1>4. 1 \in 1 .. Len(r.items)
  <2>1. /\ r.items \in Seq(Command) /\ Len(r.items) \in 1 .. MaxItems
        /\ MaxItems \in Nat
    BY DurableAssumption, Zenon DEF Request
  <2> QED
    BY <2>1
<1>5. /\ Entry(r, 1) \in {"strict", "reserve", "publish", "open"}
      /\ Entry(r, 1) = "reserve" => r.items[1].key # NoKey
      /\ Entry(r, 1) = "open" => ~r.batch
  BY <1>4, EntryIs, Zenon
<1>6. Entry(r, 1) = "publish" => r.batch
  BY Zenon DEF Entry
<1>7. x \in Busy /\ Sound(x)
  BY <1>3, <1>4, <1>5 DEF Busy, BusyPc, Sound
<1>8. /\ x.ticket = started' /\ x.i = 1 /\ (x.pc = "publish" => x.req.batch)
      /\ x.pc \notin {"release", "receipt"}
  BY <1>5, <1>6, Zenon
<1> HIDE DEF x
<1>9. client'[c] \in {IdleClient, x} /\ client' = [client EXCEPT ![c] = client'[c]]
  BY <1>1, Zenon DEF ClientType, x
<1>10. \A d \in Clients : d # c => client'[d] = client[d]
  BY <1>9, Zenon DEF ClientType
<1>11. promised' = promised
  BY Zenon DEF Begin
<1>12. ClientType'
  BY <1>3, <1>7, <1>9, <1>11, Zenon DEF ClientType
<1>13. \A d \in Clients : d # c /\ client[d].pc # "idle" => client[d].ticket < started'
  <2> SUFFICES ASSUME NEW d \in Clients, d # c, client[d].pc # "idle"
               PROVE  client[d].ticket < started'
    BY Zenon
  <2>1. client[d] \in Busy
    BY DEF ClientType, IdleClient
  <2>2. client[d].ticket \in Nat
    BY <2>1 DEF Busy, Tickets
  <2> QED
    BY <2>2, <1>2 DEF ClientInv
<1>14. ClientInv'
  <2> SUFFICES ASSUME NEW d \in Clients, client'[d].pc # "idle"
               PROVE  client'[d].ticket <= started' /\ Sound(client'[d])
    BY Zenon DEF ClientInv, Sound
  <2>1. CASE d = c
    BY <2>1, <1>3, <1>7, <1>8, <1>9 DEF IdleClient
  <2>2. CASE d # c
    <3>1. client[d] \in Busy
      BY <2>2, <1>10 DEF ClientType, IdleClient
    <3>2. client[d].ticket \in Nat
      BY <3>1 DEF Busy, Tickets
    <3> QED
      BY <2>2, <3>2, <1>2, <1>10, <1>13 DEF ClientInv
  <2> QED
    BY <2>1, <2>2, Zenon
<1>15. TicketsDrawnOnce'
  <2> SUFFICES ASSUME NEW d \in Clients, NEW e \in Clients, d # e,
                      client'[d].pc # "idle", client'[e].pc # "idle",
                      client'[d].ticket = client'[e].ticket
               PROVE  FALSE
    BY Zenon DEF TicketsDrawnOnce
  <2>1. CASE d # c /\ e # c
    BY <2>1, <1>10, Zenon DEF TicketsDrawnOnce
  <2>2. CASE d = c
    <3>1. client'[d].ticket = started' /\ client'[e].ticket < started'
      BY <2>2, <1>8, <1>9, <1>10, <1>13 DEF IdleClient
    <3> QED
      BY <3>1, <1>3
  <2>3. CASE e = c
    <3>1. client'[e].ticket = started' /\ client'[d].ticket < started'
      BY <2>3, <1>8, <1>9, <1>10, <1>13 DEF IdleClient
    <3> QED
      BY <3>1, <1>3
  <2> QED
    BY <2>1, <2>2, <2>3, Zenon
<1> QED
  BY <1>2, <1>7, <1>8, <1>9, <1>12, <1>14, <1>15 DEF IdleClient

\* The step of a client: one of its request's, or the loss of the request.
ClientStep(c) == Begin(c) \/ Serving(c) \/ ClientCrash(c)

\* A step of a request handler keeps what is known of the handlers.
LEMMA ClientStepKeepsClients ==
  ASSUME ClientType, ClientInv, StoreType, TicketsDrawnOnce, NEW c \in Clients,
         ClientStep(c)
  PROVE  ClientType' /\ ClientInv' /\ TicketsDrawnOnce'
<1>1. CASE Begin(c)
  BY <1>1, BeginKeepsClients, Zenon
<1>2. CASE Serving(c)
  BY <1>2, ServingServes, ServesKeepsClients, Zenon
<1>3. CASE ClientCrash(c)
  <2>1. Serves(c) /\ client[c].pc # "idle"
    BY <1>3, Zenon DEF ClientCrash, Serves, ClientType
  <2> QED
    BY <2>1, ServesKeepsClients, Zenon
<1> QED
  BY <1>1, <1>2, <1>3, Zenon DEF ClientStep

-----------------------------------------------------------------------------
(* The queue and the workers.                                              *)

\* The fields of the worker a step is about, and the others left alone.
LEMMA TakeIs ==
  ASSUME QueueType, WorkerType, NEW w \in Workers, NEW todo \in SUBSET (1 .. delivered),
         Take(w, todo)
  PROVE  /\ worker' \in [Workers -> Work]
         /\ \A v \in Workers : v # w => worker'[v] = worker[v]
         /\ worker'[w].todo = todo /\ worker'[w].mark = "processing"
         /\ todo = {} <=> worker'[w].pc = "idle"
         /\ todo # {} => worker'[w].pc = FirstStep(Min(todo))
<1> DEFINE x == IF todo = {} THEN IdleWorker
                ELSE [pc |-> FirstStep(Min(todo)), todo |-> todo, mark |-> "processing"]
<1>1. worker' = [worker EXCEPT ![w] = x]
  BY Zenon DEF Take
<1>2. delivered \in Nat
  BY SeqIs DEF QueueType
<1>3. todo \in SUBSET (Nat \ {0})
  BY <1>2
<1>4. /\ x \in Work /\ x.todo = todo /\ x.mark = "processing"
      /\ todo = {} <=> x.pc = "idle"
      /\ todo # {} => x.pc = FirstStep(Min(todo))
  BY <1>3, Zenon DEF IdleWorker, Work, FirstStep
<1> HIDE DEF x
<1> QED
  BY <1>1, <1>4, Zenon DEF WorkerType

\* The entry a worker is at is the oldest of those it was handed.
LEMMA CurrentIs ==
  ASSUME Arithmetic, QueueType, WorkerType, NEW w \in Workers, worker[w].pc # "idle"
  PROVE  /\ Current(w) \in worker[w].todo /\ Current(w) \in 1 .. delivered
         /\ Current(w) \in Published
         /\ \A m \in worker[w].todo : Current(w) <= m
<1>1. worker[w].todo # {} /\ worker[w].todo \in SUBSET Nat
  BY Zenon DEF WorkerType, Work
<1>2. Current(w) \in worker[w].todo /\ \A m \in worker[w].todo : Current(w) <= m
  BY <1>1, MinIs, Zenon DEF Current
<1>3. Current(w) \in 1 .. delivered
  BY <1>2, Zenon DEF WorkerType
<1>4. delivered \in 0 .. Len(stream) /\ Len(stream) \in Nat
  BY SeqIs, Zenon DEF QueueType
<1> QED
  BY <1>2, <1>3, <1>4 DEF Published

\* An entry of the stream is a task with a command and a ticket, if any.
LEMMA TaskType ==
  ASSUME QueueType, NEW m \in Published
  PROVE  /\ stream[m] \in Task /\ stream[m].cmd \in Command
         /\ Ticket(m) \in Tickets \cup {NoTicket}
<1>1. stream[m] \in Task
  BY SeqIs, Zenon DEF QueueType, Published
<1> QED
  BY <1>1, Zenon DEF Task, Ticket

NewTask(c) == [cmd |-> Item(c), origin |-> client[c].ticket,
               ticket |-> IF client[c].req.batch THEN NoTicket ELSE client[c].ticket]

\* The stream and its verdicts with an entry more.
Grows(c) ==
  /\ Len(stream') = Len(stream) + 1 /\ Len(verdicts') = Len(stream) + 1
  /\ stream'[Len(stream) + 1] = NewTask(c) /\ verdicts'[Len(stream) + 1] = {}
  /\ \A m \in Published : stream'[m] = stream[m] /\ verdicts'[m] = verdicts[m]
  /\ Published' = Published \cup {Len(stream) + 1}
  /\ Len(stream) + 1 \notin Published

\* XADD appends one task or leaves the stream alone, and touches no other
\* store.
LEMMA PublishIs ==
  ASSUME ClientType, ClientInv, QueueType, NEW c \in Clients, Publish(c)
  PROVE  /\ NewTask(c) \in Task /\ client[c].pc = "publish"
         /\ UNCHANGED <<idem, tickets, delivered, pel, slot, worker, events, sampled,
                        started>>
         /\ QueueType'
         /\ \/ UNCHANGED <<stream, verdicts>>
            \/ Grows(c)
<1>1. /\ client[c].pc = "publish"
      /\ UNCHANGED <<idem, tickets, delivered, pel, slot, worker, events, sampled,
                     started>>
  BY Zenon DEF Publish
<1>2. NewTask(c) \in Task
  <2>1. client[c] \in Busy /\ Item(c) \in Command
    BY <1>1, ItemType, Zenon
  <2>2. client[c].ticket \in Tickets
    BY <2>1, Zenon DEF Busy
  <2> QED
    BY <2>1, <2>2, Zenon DEF NewTask, Task
<1>3. Len(stream) \in Nat /\ Len(verdicts) = Len(stream)
  BY SeqIs, Zenon DEF QueueType
<1>4. CASE UNCHANGED <<stream, verdicts>>
  BY <1>1, <1>2, <1>4, Zenon DEF QueueType
<1>5. CASE stream' = Append(stream, NewTask(c)) /\ verdicts' = Append(verdicts, {})
  <2>1. stream' \in Seq(Task) /\ verdicts' \in Seq(SUBSET Outcome)
    BY <1>2, <1>5 DEF QueueType
  <2>2. /\ Len(stream') = Len(stream) + 1 /\ stream'[Len(stream) + 1] = NewTask(c)
        /\ \A m \in Published : stream'[m] = stream[m]
    BY <1>2, <1>5, AppendIs DEF QueueType, Published
  <2>3. /\ Len(verdicts') = Len(stream) + 1 /\ verdicts'[Len(stream) + 1] = {}
        /\ \A m \in Published : verdicts'[m] = verdicts[m]
    BY <1>3, <1>5, AppendIs DEF QueueType, Published
  <2>4. Published' = Published \cup {Len(stream) + 1} /\ Len(stream) + 1 \notin Published
    BY <1>3, <2>2 DEF Published
  <2>5. QueueType'
    BY <1>1, <1>3, <2>1, <2>2, <2>3 DEF QueueType
  <2> QED
    BY <1>1, <1>2, <2>2, <2>3, <2>4, <2>5, Zenon DEF Grows
<1> QED
  BY <1>4, <1>5, Zenon DEF Publish, NewTask

\* A step that leaves stream and workers alone keeps their types.
LEMMA QuietQueue ==
  ASSUME QueueType, WorkerType, UNCHANGED <<queueVars, slot, worker, verdicts>>
  PROVE  QueueType' /\ WorkerType'
BY Zenon DEF QueueType, WorkerType, queueVars

\* XREADGROUP hands the next entry to the consumer that asked.
LEMMA SubscribeKeepsQueue ==
  ASSUME QueueType, WorkerType, NEW w \in Workers, Subscribe(w)
  PROVE  QueueType' /\ WorkerType'
<1>1. /\ delivered < Len(stream) /\ delivered' = delivered + 1
      /\ pel' = pel \cup {delivered'} /\ slot' = [slot EXCEPT ![w] = delivered']
      /\ UNCHANGED <<stream, worker, verdicts>>
  BY Zenon DEF Subscribe
<1>2. delivered \in Nat /\ Len(stream) \in Nat
  BY SeqIs DEF QueueType
<1>3. QueueType'
  BY <1>1, <1>2 DEF QueueType
<1>4. 1 .. delivered \subseteq 1 .. delivered'
  BY <1>1, <1>2
<1>5. slot' \in [Workers -> Nat] /\ \A v \in Workers : slot'[v] <= delivered'
  BY <1>1, <1>2 DEF WorkerType
<1>6. WorkerType'
  BY <1>1, <1>4, <1>5, Zenon DEF WorkerType
<1> QED
  BY <1>3, <1>6, Zenon

\* A step that only gives a worker another delivery.
LEMMA TakeKeepsQueue ==
  ASSUME QueueType, WorkerType, NEW w \in Workers, NEW todo \in SUBSET (1 .. delivered),
         Take(w, todo), delivered' = delivered,
         slot' = slot \/ slot' = [slot EXCEPT ![w] = 0]
  PROVE  WorkerType'
<1>1. /\ worker' \in [Workers -> Work]
      /\ \A v \in Workers : v # w => worker'[v] = worker[v]
      /\ worker'[w].todo = todo
      /\ todo = {} <=> worker'[w].pc = "idle"
  BY TakeIs, Zenon
<1>2. delivered \in Nat
  BY SeqIs DEF QueueType
<1>3. slot' \in [Workers -> Nat] /\ \A v \in Workers : slot'[v] <= delivered'
  BY <1>2 DEF WorkerType
<1> QED
  BY <1>1, <1>3, Zenon DEF WorkerType

\* A step within a delivery.
Proceeds(w) ==
  /\ worker' = [worker EXCEPT ![w] = worker'[w]] /\ worker'[w] \in Work
  /\ worker'[w].todo = worker[w].todo /\ worker'[w].pc # "idle"
  /\ UNCHANGED slot

\* A worker that goes on with its entry keeps its share of the stream.
LEMMA ProceedsKeepsWorkers ==
  ASSUME WorkerType, NEW w \in Workers, worker[w].pc # "idle", Proceeds(w),
         delivered' = delivered
  PROVE  WorkerType'
<1>1. \A v \in Workers : v # w => worker'[v] = worker[v]
  BY Zenon DEF Proceeds, WorkerType
<1>2. worker' \in [Workers -> Work]
  BY Zenon DEF Proceeds, WorkerType
<1> QED
  BY <1>1, <1>2, Zenon DEF WorkerType, Proceeds

\* Applying a command has one of the outcomes the code tells apart.
LEMMA VerdictType ==
  ASSUME NEW c
  PROVE  Verdict(c) \in Outcome
BY Zenon DEF Verdict, Outcome, Final, Succeeded, Permanent

\* Reading the ticket goes on to save the mark when the status may take it, and
\* past it otherwise.
LEMMA MarkGetIs ==
  ASSUME WorkerType, NEW w \in Workers, MarkGet(w)
  PROVE  /\ worker[w].pc = "get" /\ Proceeds(w)
         /\ worker'[w].mark = worker[w].mark
         /\ worker'[w].pc \in {"save", AfterMark(w)}
         /\ worker'[w].pc = "save" =>
              CanTransition(tickets[Ticket(Current(w))], worker[w].mark)
<1> DEFINE status == tickets[Ticket(Current(w))]
           legal == /\ status \notin {"none", "expired"}
                    /\ status # worker[w].mark /\ CanTransition(status, worker[w].mark)
           next == IF legal THEN "save" ELSE AfterMark(w)
<1>1. worker[w].pc = "get" /\ UNCHANGED slot /\ (Proceed(w, next) \/ Proceed(w, AfterMark(w)))
  BY Zenon DEF MarkGet
<1>2. PICK pc \in {next, AfterMark(w)} : Proceed(w, pc)
  BY <1>1, Zenon
<1>3. AfterMark(w) \in {"apply", "ack"} /\ pc \in {"save", "apply", "ack"}
      /\ pc \in {"save", AfterMark(w)} /\ (pc = "save" => legal)
  BY <1>2, Zenon DEF AfterMark
<1> DEFINE x == [worker[w] EXCEPT !.pc = pc]
<1>4. worker' = [worker EXCEPT ![w] = x] /\ worker'[w] = x
  BY <1>2, Zenon DEF Proceed, WorkerType
<1>5. x \in Work /\ x.todo = worker[w].todo /\ x.pc = pc /\ x.mark = worker[w].mark
  BY <1>3, Zenon DEF WorkerType, Work
<1> HIDE DEF x
<1> QED
  BY <1>1, <1>3, <1>4, <1>5, Zenon DEF Proceeds

\* Saving the mark goes on to what follows it, whether or not it was saved.
LEMMA MarkSaveIs ==
  ASSUME WorkerType, NEW w \in Workers, MarkSave(w)
  PROVE  /\ worker[w].pc = "save" /\ Proceeds(w)
         /\ worker'[w].mark = worker[w].mark /\ worker'[w].pc = AfterMark(w)
<1>1. worker[w].pc = "save" /\ UNCHANGED slot /\ Proceed(w, AfterMark(w))
  BY Zenon DEF MarkSave
<1>2. AfterMark(w) \in {"apply", "ack"}
  BY Zenon DEF AfterMark
<1> DEFINE x == [worker[w] EXCEPT !.pc = AfterMark(w)]
<1>3. worker' = [worker EXCEPT ![w] = x] /\ worker'[w] = x
  BY <1>1, Zenon DEF Proceed, WorkerType
<1>4. /\ x \in Work /\ x.todo = worker[w].todo /\ x.pc = AfterMark(w)
      /\ x.mark = worker[w].mark
  BY <1>2, ZenonT(40) DEF WorkerType, Work
<1> HIDE DEF x
<1> QED
  BY <1>1, <1>2, <1>3, <1>4, Zenon DEF Proceeds

\* The call of the Ingester came to a verdict and to an answer.
Answered(w) ==
  LET m == Current(w)
      verdict == Verdict(stream[m].cmd)
  IN  /\ verdict \in Final
      /\ verdicts' = [verdicts EXCEPT ![m] = @ \cup {verdict}]
      /\ Proceeds(w) /\ worker'[w].mark = MarkFor(verdict)
      /\ worker'[w].pc = IF Ticket(m) = NoTicket THEN "ack" ELSE "get"

\* Applying an entry stores at most its event, and either has an answer or
\* leaves the entry to be reclaimed.
LEMMA ProcessIs ==
  ASSUME WorkerType, NEW w \in Workers, Process(w)
  PROVE  /\ worker[w].pc = "apply"
         /\ Commit(stream[Current(w)].cmd, Current(w)) \/ UNCHANGED events
         /\ \/ Answered(w)
            \/ Leave(w) /\ UNCHANGED <<slot, verdicts>>
<1> DEFINE m == Current(w)
           verdict == Verdict(stream[m].cmd)
<1>1. /\ worker[w].pc = "apply" /\ UNCHANGED slot
      /\ Commit(stream[m].cmd, m) \/ UNCHANGED events
  BY Zenon DEF Process
<1>2. CASE Leave(w) /\ UNCHANGED verdicts
  BY <1>1, <1>2, Zenon
<1>3. CASE /\ verdict \in Final
           /\ verdicts' = [verdicts EXCEPT ![m] = @ \cup {verdict}]
           /\ worker' = [worker EXCEPT ![w].mark = MarkFor(verdict),
                           ![w].pc = IF Ticket(m) = NoTicket THEN "ack" ELSE "get"]
  <2> DEFINE pc == IF Ticket(m) = NoTicket THEN "ack" ELSE "get"
             x == [worker[w] EXCEPT !.mark = MarkFor(verdict), !.pc = pc]
  <2>1. worker' = [worker EXCEPT ![w] = x] /\ worker'[w] = x
    BY <1>3, Zenon DEF WorkerType
  <2>2. MarkFor(verdict) \in {"stored", "failed"} /\ pc \in {"ack", "get"}
    BY Zenon DEF MarkFor
  <2> HIDE DEF pc, verdict
  <2>3. /\ x \in Work /\ x.todo = worker[w].todo /\ x.pc = pc
        /\ x.mark = MarkFor(verdict)
    BY <2>2, ZenonT(40) DEF WorkerType, Work
  <2> HIDE DEF x
  <2>4. Proceeds(w) /\ worker'[w].mark = MarkFor(verdict) /\ worker'[w].pc = pc
    BY <1>1, <2>1, <2>2, <2>3, Zenon DEF Proceeds
  <2> QED
    BY <1>1, <1>3, <2>4, Zenon DEF Answered, pc, verdict
<1> QED
  BY <1>2, <1>3, Zenon DEF Process

\* An answered entry has one verdict more, and no other entry has.
LEMMA AnsweredKeepsQueue ==
  ASSUME Arithmetic, QueueType, WorkerType, NEW w \in Workers, worker[w].pc # "idle",
         Answered(w), UNCHANGED queueVars
  PROVE  /\ QueueType' /\ WorkerType'
         /\ verdicts'[Current(w)] = verdicts[Current(w)] \cup {Verdict(stream[Current(w)].cmd)}
         /\ \A m \in Published : m # Current(w) => verdicts'[m] = verdicts[m]
<1> DEFINE m == Current(w)
           verdict == Verdict(stream[m].cmd)
<1>1. m \in 1 .. Len(verdicts) /\ m \in DOMAIN verdicts /\ DOMAIN verdicts = Published
  BY CurrentIs, SeqIs, Zenon DEF QueueType, Published
<1>2. verdict \in Outcome
  BY VerdictType, Zenon
<1> HIDE DEF m, verdict
<1>3. verdicts' = [verdicts EXCEPT ![m] = @ \cup {verdict}] /\ Proceeds(w)
  BY Zenon DEF Answered, m, verdict
<1>4. verdicts[m] \cup {verdict} \in SUBSET Outcome
  BY <1>1, <1>2, SeqIs, Zenon DEF QueueType
<1>5. verdicts' \in Seq(SUBSET Outcome) /\ Len(verdicts') = Len(verdicts)
  BY <1>1, <1>3, <1>4, ExceptIs DEF QueueType
<1>6. QueueType'
  BY <1>5, Zenon DEF QueueType, queueVars
<1>7. WorkerType'
  BY <1>3, ProceedsKeepsWorkers, Zenon DEF queueVars
<1>8. /\ verdicts'[m] = verdicts[m] \cup {verdict}
      /\ \A n \in Published : n # m => verdicts'[n] = verdicts[n]
  BY <1>1, <1>3, Zenon
<1> QED
  BY <1>6, <1>7, <1>8, Zenon DEF m, verdict

WorkerStep(w) == Subscribe(w) \/ Handling(w) \/ AnyReclaim(w) \/ WorkerCrash(w)

\* What is left of a share of the stream is a share of it.
LEMMA LeaveTodo ==
  ASSUME QueueType, WorkerType, NEW w \in Workers
  PROVE  worker[w].todo \ {Current(w)} \in SUBSET (1 .. delivered)
BY Zenon DEF WorkerType

\* A step of a worker keeps the types of stream and workers.
LEMMA WorkerStepKeepsQueue ==
  ASSUME Arithmetic, QueueType, WorkerType, NEW w \in Workers, WorkerStep(w)
  PROVE  QueueType' /\ WorkerType'
<1>1. CASE Subscribe(w)
  BY <1>1, SubscribeKeepsQueue, Zenon
<1>2. CASE Receive(w)
  <2>1. {slot[w]} \in SUBSET (1 .. delivered)
    BY <1>2, SeqIs DEF Receive, WorkerType, QueueType
  <2>2. WorkerType'
    BY <1>2, <2>1, TakeKeepsQueue, Zenon DEF Receive, queueVars
  <2> QED
    BY <1>2, <2>2, Zenon DEF Receive, QueueType, queueVars
<1>3. CASE AnyReclaim(w)
  <2>1. PICK claimed \in SUBSET pel : Reclaim(w, claimed)
    BY <1>3, Zenon DEF AnyReclaim
  <2>2. claimed \in SUBSET (1 .. delivered)
    BY Zenon DEF QueueType
  <2>3. WorkerType'
    BY <2>1, <2>2, TakeKeepsQueue, Zenon DEF Reclaim, queueVars
  <2> QED
    BY <2>1, <2>3, Zenon DEF Reclaim, QueueType, queueVars
<1>4. CASE MarkGet(w)
  <2>1. worker[w].pc = "get" /\ Proceeds(w)
    BY <1>4, MarkGetIs, Zenon
  <2>2. UNCHANGED <<queueVars, verdicts>>
    BY <1>4, Zenon DEF MarkGet
  <2> QED
    BY <2>1, <2>2, ProceedsKeepsWorkers, Zenon DEF QueueType, queueVars
<1>5. CASE MarkSave(w)
  <2>1. worker[w].pc = "save" /\ Proceeds(w)
    BY <1>5, MarkSaveIs, Zenon
  <2>2. UNCHANGED <<queueVars, verdicts>>
    BY <1>5, Zenon DEF MarkSave
  <2> QED
    BY <2>1, <2>2, ProceedsKeepsWorkers, Zenon DEF QueueType, queueVars
<1>6. CASE Process(w)
  <2>1. worker[w].pc = "apply" /\ UNCHANGED queueVars
    BY <1>6, Zenon DEF Process
  <2>2. CASE Answered(w)
    BY <2>1, <2>2, AnsweredKeepsQueue, Zenon
  <2>3. CASE Leave(w) /\ UNCHANGED <<slot, verdicts>>
    <3>1. WorkerType'
      BY <2>1, <2>3, LeaveTodo, TakeKeepsQueue, Zenon DEF Leave, queueVars
    <3> QED
      BY <2>1, <2>3, <3>1, Zenon DEF QueueType, queueVars
  <2> QED
    BY <1>6, <2>2, <2>3, ProcessIs, Zenon
<1>7. CASE Ack(w)
  <2>1. /\ Leave(w) /\ UNCHANGED <<stream, delivered, slot, verdicts>>
        /\ pel' \subseteq pel
    BY <1>7, Zenon DEF Ack
  <2>2. WorkerType'
    BY <2>1, LeaveTodo, TakeKeepsQueue, Zenon DEF Leave
  <2> QED
    BY <2>1, <2>2, Zenon DEF QueueType
<1>8. CASE WorkerCrash(w)
  <2>1. /\ worker' = [worker EXCEPT ![w] = IdleWorker]
        /\ slot' = [slot EXCEPT ![w] = 0] /\ UNCHANGED <<queueVars, verdicts>>
    BY <1>8, Zenon DEF WorkerCrash
  <2>2. Take(w, {}) /\ {} \in SUBSET (1 .. delivered)
    BY <2>1, Zenon DEF Take
  <2>3. WorkerType'
    BY <2>1, <2>2, TakeKeepsQueue, Zenon DEF queueVars
  <2> QED
    BY <2>1, <2>3, Zenon DEF QueueType, queueVars
<1> QED
  BY <1>1, <1>2, <1>3, <1>4, <1>5, <1>6, <1>7, <1>8, Zenon DEF WorkerStep, Handling

-----------------------------------------------------------------------------
(* The stores.                                                             *)

\* A commit appends at most one event, and none whose event_id is stored.
Commits(c, m) ==
  \/ UNCHANGED events
  \/ \E ev \in Event :
       /\ events' = Append(events, ev) /\ ev.key = c.key /\ ev.entry = m
       /\ ev.key # NoKey => \A i \in DOMAIN events : events[i].key # ev.key
       /\ Verdict(c) = "stored"

\* Committing a command appends its event, or nothing.
LEMMA CommitIs ==
  ASSUME StoreType, NEW c \in Command, NEW m \in Nat, Commit(c, m)
  PROVE  Commits(c, m) /\ events' \in Seq(Event)
<1> DEFINE ev == [eid |-> c.eid, key |-> c.key, entry |-> m,
                  value |-> IF c.kind = "diff" THEN Absent ELSE c.to]
<1>1. CASE Verdict(c) # "stored"
  BY <1>1, Zenon DEF Commit, Commits, StoreType
<1>2. CASE Verdict(c) = "stored"
  <2>1. ev \in Event /\ ev.key = c.key /\ ev.entry = m
    BY Zenon DEF Event, Command, Absent
  <2>2. events' = Append(events, ev)
    BY <1>2, Zenon DEF Commit
  <2>3. c.key # NoKey => \A e \in Range(events) : e.key # c.key
    BY <1>2, Zenon DEF Verdict
  <2>4. \A i \in DOMAIN events : events[i] \in Range(events)
    BY Zenon DEF Range
  <2> HIDE DEF ev
  <2>5. events' \in Seq(Event)
    BY <2>1, <2>2 DEF StoreType
  <2> QED
    BY <1>2, <2>1, <2>2, <2>3, <2>4, <2>5, Zenon DEF Commits
<1> QED
  BY <1>1, <1>2, Zenon

\* A fault is counted.
LEMMA FaultCounts ==
  ASSUME StoreType, NEW kind, Fault(kind)
  PROVE  faults' \in Nat
BY DEF StoreType, Fault

\* Depth, as XINFO GROUPS and XPENDING give it, is a number.
LEMMA DepthType ==
  ASSUME Arithmetic, QueueType
  PROVE  Depth \in Nat
<1>1. delivered \in Nat /\ Len(stream) \in Nat /\ delivered <= Len(stream)
  BY SeqIs DEF QueueType
<1>2. Cardinality(pel) \in Nat
  BY <1>1, Zenon DEF Arithmetic, QueueType
<1> QED
  BY <1>1, <1>2 DEF Depth

\* A step of a request handler keeps the types of the stores.
LEMMA ClientStepKeepsStores ==
  ASSUME ClientType, ClientInv, QueueType, StoreType, NEW c \in Clients, ClientStep(c)
  PROVE  StoreType'
<1>1. faults' \in Nat
  <2>1. UNCHANGED faults \/ \E kind \in {"queue", "redis", "api crash"} : Fault(kind)
    BY Zenon DEF ClientStep, Begin, Serving, Strict, SetNX, Lookup, Open, Publish, Release,
           Receipt, ClientCrash
  <2> QED
    BY <2>1, FaultCounts, Zenon DEF StoreType
<1>2. sampled' = sampled
  BY Zenon DEF ClientStep, Begin, Serving, Strict, SetNX, Lookup, Open, Publish, Release,
         Receipt, ClientCrash
<1>3. CASE Strict(c)
  <2>1. Item(c) \in Command /\ Commit(Item(c), 0) /\ UNCHANGED <<idem, tickets>>
    BY <1>3, ItemType, Zenon DEF Strict
  <2>2. events' \in Seq(Event)
    BY <2>1, CommitIs, Zenon
  <2> QED
    BY <1>1, <1>2, <2>1, <2>2, Zenon DEF StoreType
<1>4. CASE SetNX(c)
  <2>1. client[c] \in Busy /\ UNCHANGED <<tickets, events>>
    BY <1>4, ItemType, Zenon DEF SetNX
  <2>2. client[c].ticket \in Tickets
    BY <2>1, Zenon DEF Busy
  <2>3. idem' = idem \/ idem' = [idem EXCEPT ![Item(c).key] = client[c].ticket]
    BY <1>4, Zenon DEF SetNX
  <2> QED
    BY <1>1, <1>2, <2>1, <2>2, <2>3, Zenon DEF StoreType
<1>5. CASE Release(c)
  <2>1. idem' = idem \/ idem' = [idem EXCEPT ![Item(c).key] = NoTicket]
    BY <1>5, Zenon DEF Release
  <2> QED
    BY <1>1, <1>2, <1>5, <2>1, Zenon DEF StoreType, Release
<1>6. CASE Open(c)
  <2>1. tickets' = tickets \/ tickets' = [tickets EXCEPT ![client[c].ticket] = "accepted"]
    BY <1>6, Zenon DEF Open
  <2>2. tickets' \in [Tickets -> Status]
    BY <2>1, Zenon DEF StoreType, Status
  <2> QED
    BY <1>1, <1>2, <1>6, <2>2, Zenon DEF StoreType, Open
<1>7. CASE Receipt(c)
  <2>1. \/ tickets' = tickets
        \/ \E s \in {"partial", "accepted"} : tickets' = [tickets EXCEPT ![client[c].ticket] = s]
    BY <1>7, Zenon DEF Receipt
  <2>2. tickets' \in [Tickets -> Status]
    BY <2>1, Zenon DEF StoreType, Status, Terminal
  <2> QED
    BY <1>1, <1>2, <1>7, <2>2, Zenon DEF StoreType, Receipt
<1>8. CASE Begin(c) \/ Lookup(c) \/ Publish(c) \/ ClientCrash(c)
  <2>1. UNCHANGED <<idem, tickets, events>>
    BY <1>8, Zenon DEF Begin, Lookup, Publish, ClientCrash
  <2> QED
    BY <1>1, <1>2, <2>1, Zenon DEF StoreType
<1> QED
  BY <1>3, <1>4, <1>5, <1>6, <1>7, <1>8, Zenon DEF ClientStep, Serving

\* A mark changes the ticket of the delivery at hand at most.
Marks(w) ==
  \/ UNCHANGED tickets
  \/ /\ tickets[Ticket(Current(w))] \notin {"none", "expired"}
     /\ tickets' = [tickets EXCEPT ![Ticket(Current(w))] = worker[w].mark]

\* Saving a mark changes no ticket other than the entry's.
LEMMA MarkSaveMarks ==
  ASSUME NEW w \in Workers, MarkSave(w)
  PROVE  Marks(w)
BY Zenon DEF MarkSave, Marks, Save

\* A step of a worker keeps the types of the stores.
LEMMA WorkerStepKeepsStores ==
  ASSUME Arithmetic, QueueType, WorkerType, StoreType, NEW w \in Workers, WorkerStep(w)
  PROVE  StoreType'
<1>1. faults' \in Nat
  <2>1. UNCHANGED faults \/ \E kind \in {"queue", "redis", "mongo", "crash"} : Fault(kind)
    BY Zenon DEF WorkerStep, Handling, AnyReclaim, Subscribe, Receive, Reclaim, MarkGet,
           MarkSave, Process, Ack, WorkerCrash
  <2> QED
    BY <2>1, FaultCounts, Zenon DEF StoreType
<1>2. UNCHANGED <<idem, sampled>>
  BY Zenon DEF WorkerStep, Handling, AnyReclaim, Subscribe, Receive, Reclaim, MarkGet,
         MarkSave, Process, Ack, WorkerCrash, clientVars
<1>3. CASE MarkSave(w)
  <2>1. Marks(w) /\ UNCHANGED events /\ worker[w].mark \in Status
    BY <1>3, MarkSaveMarks, Zenon DEF MarkSave, WorkerType, Work, Status, Terminal
  <2>2. tickets' \in [Tickets -> Status]
    BY <2>1, Zenon DEF Marks, StoreType
  <2> QED
    BY <1>1, <1>2, <2>1, <2>2, Zenon DEF StoreType
<1>4. CASE Process(w)
  <2>1. /\ worker[w].pc # "idle" /\ UNCHANGED tickets
        /\ Commit(stream[Current(w)].cmd, Current(w)) \/ UNCHANGED events
    BY <1>4, ProcessIs, Zenon DEF Process
  <2>2. Current(w) \in Nat /\ stream[Current(w)].cmd \in Command
    BY <2>1, CurrentIs, TaskType DEF Published
  <2>3. events' \in Seq(Event)
    BY <2>1, <2>2, CommitIs, Zenon DEF StoreType
  <2> QED
    BY <1>1, <1>2, <2>1, <2>3, Zenon DEF StoreType
<1>5. CASE Subscribe(w) \/ Receive(w) \/ MarkGet(w) \/ Ack(w) \/ AnyReclaim(w)
           \/ WorkerCrash(w)
  <2>1. UNCHANGED <<tickets, events>>
    BY <1>5, Zenon DEF Subscribe, Receive, MarkGet, Ack, AnyReclaim, Reclaim, WorkerCrash
  <2> QED
    BY <1>1, <1>2, <2>1, Zenon DEF StoreType
<1> QED
  BY <1>3, <1>4, <1>5, Zenon DEF WorkerStep, Handling

-----------------------------------------------------------------------------
(* The numbering of the entries.                                           *)

\* A request has at most maxBatchItems items, and a single write has one.
LEMMA ItemsBounded ==
  ASSUME NEW r \in Requests
  PROVE  /\ Len(r.items) \in Nat /\ MaxItems \in Nat /\ Len(r.items) <= MaxItems
         /\ ~r.batch => Len(r.items) = 1
<1>1. Len(r.items) \in 1 .. MaxItems /\ MaxItems \in Nat
  BY DurableAssumption, Zenon
<1>2. ~r.batch => Len(r.items) = 1
  BY DurableAssumption, Zenon
<1> QED
  BY <1>1, <1>2

\* A call that publishes nothing keeps the numbering of the entries.
LEMMA ServesKeepsNumbers ==
  ASSUME ClientType, NumberInv, NEW c \in Clients, client[c].pc # "idle", Serves(c),
         UNCHANGED stream
  PROVE  NumberInv'
<1>1. PICK ix \in [Published -> 1 .. MaxItems] : Numbered(ix)
  BY Zenon DEF NumberInv
<1>2. Published' = Published /\ started' = started
  BY Zenon DEF Published, Serves
<1>3. ASSUME NEW m \in Published, NEW d \in Clients, client'[d].pc # "idle",
             stream[m].origin = client'[d].ticket
      PROVE  \/ ix[m] < client'[d].i
             \/ ix[m] = client'[d].i /\ client'[d].pc = "release"
  <2>1. CASE d # c
    <3>1. client'[d] = client[d]
      BY <2>1, Zenon DEF Serves, ClientType
    <3> QED
      BY <1>1, <1>3, <3>1 DEF Numbered
  <2>2. CASE d = c
    <3>1. client[c] \in Busy /\ client'[c].ticket = client[c].ticket
      BY <1>3, <2>2 DEF Serves, ClientType, IdleClient
    <3>2. \/ ix[m] < client[c].i
          \/ ix[m] = client[c].i /\ client[c].pc = "release"
      BY <1>1, <1>3, <2>2, <3>1, Zenon DEF Numbered
    <3>3. \/ client'[c].i = client[c].i + 1
          \/ client'[c].i = client[c].i /\ client[c].pc # "release"
      BY <1>3, <2>2 DEF Serves, IdleClient
    <3>4. ix[m] \in Int /\ client[c].i \in Int
      BY <3>1 DEF Busy
    <3> QED
      BY <2>2, <3>2, <3>3, <3>4
  <2> QED
    BY <2>1, <2>2, Zenon
<1>4. Numbered(ix)'
  BY <1>1, <1>2, <1>3, Zenon DEF Numbered
<1> QED
  BY <1>2, <1>4, Zenon DEF NumberInv

\* A new entry is numbered by the item that published it.
LEMMA GrowsKeepsNumbers ==
  ASSUME ClientType, ClientInv, TicketsDrawnOnce, QueueType, NumberInv, NEW c \in Clients,
         client[c].pc = "publish", Serves(c), Grows(c)
  PROVE  NumberInv'
<1>1. PICK ix \in [Published -> 1 .. MaxItems] : Numbered(ix)
  BY Zenon DEF NumberInv
<1> DEFINE new == Len(stream) + 1
<1>2. client[c] \in Busy /\ client[c].i \in 1 .. Len(client[c].req.items)
  BY ItemType, Zenon
<1>3. /\ client[c].req \in Requests /\ client[c].ticket <= started /\ client[c].i \in Nat
      /\ client[c].ticket \in Nat
  BY <1>2 DEF ClientInv, Busy, Tickets
<1>4. client[c].i \in 1 .. MaxItems /\ (~client[c].req.batch => client[c].i = 1)
  <2>1. /\ Len(client[c].req.items) \in Nat /\ MaxItems \in Nat
        /\ Len(client[c].req.items) <= MaxItems
        /\ ~client[c].req.batch => Len(client[c].req.items) = 1
    BY <1>3, ItemsBounded, Zenon
  <2>2. client[c].i \in 1 .. MaxItems
    BY <1>2, <2>1
  <2>3. ASSUME ~client[c].req.batch
        PROVE  client[c].i = 1
    <3>1. Len(client[c].req.items) = 1
      BY <2>1, <2>3, Zenon
    <3> QED
      BY <1>2, <3>1
  <2> QED
    BY <2>2, <2>3, Zenon
<1>5. /\ Published' = Published \cup {new} /\ new \notin Published
      /\ \A m \in Published : stream'[m] = stream[m]
      /\ stream'[new] = NewTask(c)
  BY Zenon DEF Grows
<1>6. PICK jx \in [Published' -> 1 .. MaxItems] :
        jx[new] = client[c].i /\ \A m \in Published : jx[m] = ix[m]
  <2> DEFINE f == [m \in Published' |-> IF m = new THEN client[c].i ELSE ix[m]]
  <2>1. /\ f \in [Published' -> 1 .. MaxItems] /\ f[new] = client[c].i
        /\ \A m \in Published : f[m] = ix[m]
    BY <1>4, <1>5, Zenon
  <2> QED
    BY <2>1, Zenon
<1> HIDE DEF new
<1>7. /\ NewTask(c).origin = client[c].ticket
      /\ NewTask(c).ticket # NoTicket =>
           NewTask(c).ticket = client[c].ticket /\ ~client[c].req.batch
  BY Zenon DEF NewTask
<1>8. started' = started
  BY Zenon DEF Serves
<1>9. \A m \in Published : stream[m].origin = client[c].ticket => ix[m] < client[c].i
  BY <1>1, Zenon DEF Numbered
<1>10. \A m \in Published' : stream'[m].origin <= started'
  BY <1>1, <1>3, <1>5, <1>7, <1>8, Zenon DEF Numbered
<1>11. ASSUME NEW m \in Published', NEW n \in Published',
              stream'[m].origin = stream'[n].origin, jx[m] = jx[n]
       PROVE  m = n
  <2>1. CASE m \in Published /\ n \in Published
    BY <1>1, <1>5, <1>6, <1>11, <2>1 DEF Numbered
  <2>2. CASE m \in Published /\ n = new
    <3>1. stream[m].origin = client[c].ticket /\ ix[m] = client[c].i
      BY <1>5, <1>6, <1>7, <1>11, <2>2, Zenon
    <3>2. ix[m] < client[c].i /\ ix[m] \in Int
      BY <1>9, <2>2, <3>1
    <3> QED
      BY <3>1, <3>2
  <2>3. CASE n \in Published /\ m = new
    <3>1. stream[n].origin = client[c].ticket /\ ix[n] = client[c].i
      BY <1>5, <1>6, <1>7, <1>11, <2>3, Zenon
    <3>2. ix[n] < client[c].i /\ ix[n] \in Int
      BY <1>9, <2>3, <3>1
    <3> QED
      BY <3>1, <3>2
  <2> QED
    BY <1>5, <2>1, <2>2, <2>3, Zenon
<1>12. \A m \in Published' : stream'[m].ticket # NoTicket =>
         stream'[m].ticket = stream'[m].origin /\ jx[m] = 1
  BY <1>1, <1>4, <1>5, <1>6, <1>7 DEF Numbered
<1>13. ASSUME NEW m \in Published', NEW d \in Clients, client'[d].pc # "idle",
              stream'[m].origin = client'[d].ticket
       PROVE  \/ jx[m] < client'[d].i
              \/ jx[m] = client'[d].i /\ client'[d].pc = "release"
  <2>1. CASE d # c
    <3>1. client'[d] = client[d]
      BY <2>1, Zenon DEF Serves, ClientType
    <3>2. CASE m \in Published
      BY <1>1, <1>5, <1>6, <1>13, <3>1, <3>2 DEF Numbered
    <3>3. CASE m = new
      BY <1>5, <1>7, <1>13, <2>1, <3>1, <3>3, Zenon DEF TicketsDrawnOnce
    <3> QED
      BY <1>5, <3>2, <3>3, Zenon
  <2>2. CASE d = c
    <3>1. /\ client'[c].ticket = client[c].ticket
          /\ \/ client'[c].i = client[c].i + 1
             \/ client'[c].i = client[c].i /\ client'[c].pc = "release"
      BY <1>13, <2>2 DEF Serves, IdleClient
    <3>2. jx[m] <= client[c].i /\ jx[m] \in Int
      <4>1. CASE m = new
        BY <1>3, <1>6, <4>1
      <4>2. CASE m \in Published
        BY <1>3, <1>5, <1>6, <1>9, <1>13, <2>2, <3>1, <4>2
      <4> QED
        BY <1>5, <4>1, <4>2, Zenon
    <3> QED
      BY <1>3, <2>2, <3>1, <3>2
  <2> QED
    BY <2>1, <2>2, Zenon
<1>14. Numbered(jx)'
  BY <1>10, <1>11, <1>12, <1>13, Zenon DEF Numbered
<1> QED
  BY <1>6, <1>14, Zenon DEF NumberInv

\* A new request has published nothing.
LEMMA BeginKeepsNumbers ==
  ASSUME ClientType, ClientInv, TicketsDrawnOnce, QueueType, NumberInv, NEW c \in Clients,
         Begin(c)
  PROVE  NumberInv'
<1>1. PICK ix \in [Published -> 1 .. MaxItems] : Numbered(ix)
  BY Zenon DEF NumberInv
<1>2. UNCHANGED stream /\ Published' = Published /\ started \in Nat
  BY DEF Begin, queueVars, Published, ClientType
<1>3. /\ client' = [client EXCEPT ![c] = client'[c]]
      /\ client'[c].pc # "idle" => client'[c].ticket = started + 1
      /\ started' = started + 1
  BY BeginKeepsClients, Zenon
<1>4. \A m \in Published : stream[m].origin \in Nat /\ stream[m].origin <= started
  BY <1>1, TaskType DEF Numbered, Task, Tickets
<1>5. \A m \in Published, d \in Clients :
        client'[d].pc # "idle" /\ stream[m].origin = client'[d].ticket =>
         \/ ix[m] < client'[d].i
         \/ ix[m] = client'[d].i /\ client'[d].pc = "release"
  <2> SUFFICES ASSUME NEW m \in Published, NEW d \in Clients, client'[d].pc # "idle",
                      stream[m].origin = client'[d].ticket
               PROVE  \/ ix[m] < client'[d].i
                      \/ ix[m] = client'[d].i /\ client'[d].pc = "release"
    BY Zenon
  <2>1. CASE d = c
    BY <1>2, <1>3, <1>4, <2>1
  <2>2. CASE d # c
    <3>1. client'[d] = client[d]
      BY <1>3, <2>2, Zenon DEF ClientType
    <3> QED
      BY <1>1, <3>1 DEF Numbered
  <2> QED
    BY <2>1, <2>2, Zenon
<1>6. Numbered(ix)'
  BY <1>1, <1>2, <1>3, <1>4, <1>5 DEF Numbered
<1> QED
  BY <1>2, <1>6, Zenon DEF NumberInv

\* A step of a request handler keeps the numbering of the entries.
LEMMA ClientStepKeepsNumbers ==
  ASSUME ClientType, ClientInv, TicketsDrawnOnce, QueueType, StoreType, NumberInv,
         NEW c \in Clients, ClientStep(c)
  PROVE  NumberInv'
<1>1. CASE Begin(c)
  BY <1>1, BeginKeepsNumbers, Zenon
<1>2. CASE Publish(c)
  <2>1. Serves(c) /\ client[c].pc = "publish" /\ (UNCHANGED stream \/ Grows(c))
    BY <1>2, PublishServes, PublishIs, Zenon
  <2> QED
    BY <2>1, ServesKeepsNumbers, GrowsKeepsNumbers, Zenon
<1>3. CASE Serving(c) /\ ~Publish(c)
  <2>1. Serves(c) /\ client[c].pc # "idle"
    BY <1>3, ServingServes, Zenon
  <2>2. UNCHANGED stream
    BY <1>3, Zenon DEF Serving, Strict, SetNX, Lookup, Open, Release, Receipt, queueVars
  <2> QED
    BY <2>1, <2>2, ServesKeepsNumbers, Zenon
<1>4. CASE ClientCrash(c)
  <2>1. Serves(c) /\ client[c].pc # "idle" /\ UNCHANGED stream
    BY <1>4, Zenon DEF ClientCrash, Serves, ClientType, queueVars
  <2> QED
    BY <2>1, ServesKeepsNumbers, Zenon
<1> QED
  BY <1>1, <1>2, <1>3, <1>4, Zenon DEF ClientStep, Serving

\* A step that leaves handlers and stream alone keeps the numbering.
LEMMA QuietKeepsNumbers ==
  ASSUME NumberInv, UNCHANGED <<client, started, stream>>
  PROVE  NumberInv'
BY DEF NumberInv, Numbered, Published

\* Every entry the stream ever holds is one of Entries.
LEMMA StreamBounded ==
  ASSUME Arithmetic, QueueType, NumberInv
  PROVE  Published \subseteq Entries
<1>1. PICK ix \in [Published -> 1 .. MaxItems] : Numbered(ix)
  BY Zenon DEF NumberInv
<1>2. \A m \in Published : stream[m].origin \in 1 .. MaxRequests
  BY TaskType, Zenon DEF Task, Tickets
<1>3. Len(stream) \in Nat /\ MaxItems \in Nat /\ MaxRequests \in Nat
  BY SeqIs, Limits, DurableAssumption, Zenon DEF QueueType
<1> DEFINE f == [m \in 1 .. Len(stream) |-> <<stream[m].origin, ix[m]>>]
<1>4. /\ f \in [1 .. Len(stream) -> (1 .. MaxRequests) \X (1 .. MaxItems)]
      /\ \A m, n \in 1 .. Len(stream) : f[m] = f[n] => m = n
  <2>1. f \in [1 .. Len(stream) -> (1 .. MaxRequests) \X (1 .. MaxItems)]
    BY <1>2, Zenon DEF Published
  <2>2. \A m, n \in 1 .. Len(stream) : f[m] = f[n] => m = n
    BY <1>1, Zenon DEF Numbered, Published
  <2> QED
    BY <2>1, <2>2, Zenon
<1> HIDE DEF f
<1>5. Len(stream) <= MaxRequests * MaxItems
  BY <1>3, <1>4, Zenon DEF Arithmetic
<1>6. MaxRequests * MaxItems \in Nat
  BY <1>3
<1> QED
  BY <1>3, <1>5, <1>6 DEF Published, Entries

\* A ticket belongs to one entry.
LEMMA OneEntryPerTicket ==
  ASSUME NumberInv, NEW m \in Published, NEW n \in Published,
         Ticket(m) = Ticket(n), Ticket(m) # NoTicket
  PROVE  m = n
BY DEF NumberInv, Numbered, Ticket

-----------------------------------------------------------------------------
(* The tickets.                                                            *)

\* What a client does to the tickets: it opens its own, once.
LEMMA ServingTickets ==
  ASSUME ClientType, ClientInv, StoreType, NEW c \in Clients, Serving(c)
  PROVE  \/ UNCHANGED tickets /\ (client'[c].pc = "publish" => client[c].pc # "open")
         \/ /\ client[c].pc = "open" /\ client'[c].pc = "publish"
            /\ tickets' = [tickets EXCEPT ![client[c].ticket] = "accepted"]
         \/ /\ client[c].pc = "receipt" /\ client'[c] = IdleClient
            /\ tickets'[client[c].ticket] \in {"partial", "accepted", tickets[client[c].ticket]}
            /\ tickets' = [tickets EXCEPT ![client[c].ticket] = tickets'[client[c].ticket]]
<1>1. CASE Open(c)
  <2>1. client[c].pc = "open" /\ client[c] \in Busy /\ Sound(client[c])
    BY <1>1, ItemType, Zenon DEF Open, ClientInv
  <2>2. CASE Fail(c) /\ UNCHANGED tickets
    <3>1. CASE client[c].dedup
      <4>1. Goto(c, "release") /\ "release" \in BusyPc
        BY <2>2, <3>1, Zenon DEF Fail, BusyPc
      <4>2. client'[c].pc = "release"
        BY <2>1, <4>1, GotoIs, Zenon
      <4> QED
        BY <2>2, <4>2, Zenon
    <3>2. CASE ~client[c].dedup
      <4>1. ItemDone(c, FALSE, NoTicket) /\ ~client[c].req.batch
        BY <2>1, <2>2, <3>2, Zenon DEF Fail, Sound
      <4>2. client'[c] = IdleClient
        BY <2>1, <4>1, ItemDoneIs, Zenon
      <4> QED
        BY <2>2, <4>2 DEF IdleClient
    <3> QED
      BY <3>1, <3>2, Zenon
  <2>3. CASE /\ tickets' = [tickets EXCEPT ![client[c].ticket] = "accepted"]
             /\ Goto(c, "publish")
    <3>1. "publish" \in BusyPc
      BY Zenon DEF BusyPc
    <3>2. client'[c].pc = "publish"
      BY <2>1, <2>3, <3>1, GotoIs, Zenon
    <3> QED
      BY <2>1, <2>3, <3>2, Zenon
  <2> QED
    BY <1>1, <2>2, <2>3, Zenon DEF Open
<1>2. CASE Receipt(c)
  <2>1. client[c].pc = "receipt" /\ client'[c] = IdleClient
    BY <1>2, Zenon DEF Receipt, ClientType
  <2>2. client[c].ticket \in Tickets
    BY <2>1 DEF ClientType, IdleClient, Busy
  <2>3. \/ tickets' = tickets
        \/ \E s \in {"partial", "accepted"} : tickets' = [tickets EXCEPT ![client[c].ticket] = s]
    BY <1>2, Zenon DEF Receipt
  <2> QED
    BY <2>1, <2>2, <2>3, Zenon DEF StoreType
<1>3. CASE Strict(c) \/ SetNX(c) \/ Lookup(c) \/ Publish(c) \/ Release(c)
  BY <1>3, Zenon DEF Strict, SetNX, Lookup, Publish, Release
<1> QED
  BY <1>1, <1>2, <1>3, Zenon DEF Serving

\* A new request's ticket has not been used.
LEMMA BeginKeepsTickets ==
  ASSUME ClientType, ClientInv, TicketsDrawnOnce, TicketInv, NEW c \in Clients, Begin(c)
  PROVE  TicketInv'
<1>1. /\ client' = [client EXCEPT ![c] = client'[c]]
      /\ client'[c].pc # "idle" => client'[c] \in Busy /\ client'[c].ticket = started'
      /\ client'[c].pc = "publish" => client'[c].req.batch
      /\ started' = started + 1
  BY BeginKeepsClients, Zenon
<1>2. UNCHANGED tickets /\ started \in Nat
  BY DEF Begin, ClientType
<1>3. \A d \in Clients : d # c => client'[d] = client[d]
  BY <1>1, Zenon DEF ClientType
<1>4. \A t \in Tickets : t > started' => tickets'[t] = "none"
  BY <1>1, <1>2 DEF TicketInv, Tickets
<1>5. client'[c].pc # "idle" => tickets'[client'[c].ticket] = "none"
  BY <1>1, <1>2 DEF TicketInv, Busy
<1> QED
  BY <1>1, <1>2, <1>3, <1>4, <1>5 DEF TicketInv, Unopened

\* A request handler opens only the ticket it drew.
LEMMA ServingKeepsTickets ==
  ASSUME ClientType, ClientInv, TicketsDrawnOnce, StoreType, TicketInv,
         NEW c \in Clients, Serving(c)
  PROVE  TicketInv'
<1>1. Serves(c) /\ client[c].pc # "idle"
  BY ServingServes, Zenon
<1>2. client[c] \in Busy /\ client[c].ticket \in Tickets /\ client[c].ticket <= started
      /\ started' = started /\ started \in Nat
  BY <1>1 DEF ClientType, IdleClient, Busy, ClientInv, Serves
<1>3. \A d \in Clients : d # c => client'[d] = client[d]
  BY <1>1, Zenon DEF Serves, ClientType
<1>4. \A d \in Clients : d # c /\ client[d].pc # "idle" => client[d].ticket # client[c].ticket
  BY <1>1, Zenon DEF TicketsDrawnOnce
<1>5. \A t \in Tickets : t # client[c].ticket => tickets'[t] = tickets[t]
  BY <1>2, ServingTickets, Zenon DEF StoreType
<1>6. \A d \in Clients : client[d].pc # "idle" => client[d].ticket \in Tickets
  BY DEF ClientType, IdleClient, Busy
<1>7. \A t \in Tickets : t > started' => tickets'[t] = "none"
  BY <1>2, <1>5 DEF TicketInv, Tickets
<1>8. ASSUME client'[c].pc # "idle", Unopened(client'[c])
      PROVE  tickets'[client'[c].ticket] = "none"
  <2>1. client'[c].ticket = client[c].ticket /\ client'[c].req = client[c].req
    BY <1>1, <1>8 DEF Serves, IdleClient
  <2>2. /\ Unopened(client[c])
        /\ ~client[c].req.batch => client[c].pc # "open" /\ client'[c].pc # "publish"
    BY <1>1, <1>8, <2>1 DEF Serves, Unopened, IdleClient
  <2>3. client[c].pc = "open" => ~client[c].req.batch
    BY <1>1, Zenon DEF ClientInv, Sound
  <2>4. UNCHANGED tickets
    BY <1>8, <2>2, <2>3, ServingTickets DEF IdleClient
  <2> QED
    BY <1>1, <2>1, <2>2, <2>4, Zenon DEF TicketInv
<1>9. ASSUME client'[c].pc = "publish", ~client'[c].req.batch
      PROVE  tickets'[client'[c].ticket] \in {"accepted", "expired"}
  <2>1. /\ client'[c].ticket = client[c].ticket /\ client'[c].req = client[c].req
        /\ client[c].pc = "open"
    BY <1>1, <1>9 DEF Serves, IdleClient
  <2>2. tickets' = [tickets EXCEPT ![client[c].ticket] = "accepted"]
    BY <1>9, <2>1, ServingTickets, Zenon
  <2> QED
    BY <1>2, <2>1, <2>2, Zenon DEF StoreType
<1>10. \A d \in Clients : client'[d].pc # "idle" /\ Unopened(client'[d])
                         => tickets'[client'[d].ticket] = "none"
  BY <1>3, <1>4, <1>5, <1>6, <1>8 DEF TicketInv
<1>11. \A d \in Clients : client'[d].pc = "publish" /\ ~client'[d].req.batch
                         => tickets'[client'[d].ticket] \in {"accepted", "expired"}
  BY <1>3, <1>4, <1>5, <1>6, <1>9 DEF TicketInv
<1> QED
  BY <1>7, <1>10, <1>11, Zenon DEF TicketInv, Unopened

\* A handler that dies opens no ticket.
LEMMA CrashKeepsTickets ==
  ASSUME ClientType, TicketInv, NEW c \in Clients, ClientCrash(c)
  PROVE  TicketInv'
BY Zenon DEF ClientCrash, TicketInv, ClientType, IdleClient, Unopened

\* No entry has the ticket of a single write that has not shipped.
LEMMA UnshippedHasNoEntry ==
  ASSUME ClientType, ClientInv, QueueType, NumberInv, NEW c \in Clients,
         client[c].pc = "publish", ~client[c].req.batch, NEW m \in Published
  PROVE  Ticket(m) # client[c].ticket
<1>1. SUFFICES ASSUME Ticket(m) = client[c].ticket
               PROVE  FALSE
  BY Zenon
<1>2. PICK ix \in [Published -> 1 .. MaxItems] : Numbered(ix)
  BY Zenon DEF NumberInv
<1>3. /\ client[c].ticket \in Tickets /\ client[c].req \in Requests
      /\ client[c].i \in 1 .. Len(client[c].req.items)
  BY ItemType, Zenon DEF Busy
<1>4. Len(client[c].req.items) = 1
  BY <1>3, ItemsBounded, Zenon
<1>5. client[c].i = 1
  BY <1>3, <1>4
<1>6. stream[m].ticket # NoTicket
  BY <1>1, <1>3 DEF Ticket, Tickets, NoTicket
<1>7. stream[m].origin = client[c].ticket /\ ix[m] = 1
  BY <1>1, <1>2, <1>6, Zenon DEF Numbered, Ticket
<1>8. ix[m] < 1
  BY <1>2, <1>5, <1>7, Zenon DEF Numbered
<1> QED
  BY <1>7, <1>8

\* A worker marks only tickets that were opened.
LEMMA MarkSaveKeepsTickets ==
  ASSUME Arithmetic, ClientType, ClientInv, QueueType, WorkerType, StoreType,
         NumberInv, TicketInv,
         NEW w \in Workers, MarkSave(w)
  PROVE  TicketInv'
<1>1. Marks(w) /\ UNCHANGED <<client, started>> /\ worker[w].pc = "save"
  BY MarkSaveMarks, Zenon DEF MarkSave, clientVars
<1>2. CASE UNCHANGED tickets
  BY <1>1, <1>2, Zenon DEF TicketInv
<1>3. CASE /\ tickets[Ticket(Current(w))] \notin {"none", "expired"}
           /\ tickets' = [tickets EXCEPT ![Ticket(Current(w))] = worker[w].mark]
  <2>1. Current(w) \in Published
    BY <1>1, CurrentIs, Zenon
  <2>2. \A t \in Tickets : tickets[t] = "none" => tickets'[t] = "none"
    BY <1>3, Zenon DEF StoreType
  <2>3. \A c \in Clients : client[c].pc = "publish" /\ ~client[c].req.batch
          => tickets'[client[c].ticket] = tickets[client[c].ticket]
    BY <1>3, <2>1, UnshippedHasNoEntry DEF StoreType
  <2>4. \A d \in Clients : client[d].pc # "idle" => client[d].ticket \in Tickets
    BY DEF ClientType, IdleClient, Busy
  <2> QED
    BY <1>1, <2>2, <2>3, <2>4, Zenon DEF TicketInv
<1> QED
  BY <1>1, <1>2, <1>3, Zenon DEF Marks

\* Other steps of the workers and of the sampler leave clients and tickets alone.
LEMMA WorkerStepKeepsTickets ==
  ASSUME Arithmetic, ClientType, ClientInv, QueueType, WorkerType, StoreType,
         NumberInv, TicketInv,
         NEW w \in Workers, WorkerStep(w)
  PROVE  TicketInv'
<1>1. CASE MarkSave(w)
  BY <1>1, MarkSaveKeepsTickets, Zenon
<1>2. CASE Subscribe(w) \/ Receive(w) \/ MarkGet(w) \/ Process(w) \/ Ack(w)
           \/ AnyReclaim(w) \/ WorkerCrash(w)
  <2>1. UNCHANGED <<client, started, tickets>>
    BY <1>2, Zenon DEF Subscribe, Receive, MarkGet, Process, Ack, AnyReclaim, Reclaim,
                WorkerCrash, clientVars
  <2> QED
    BY <2>1, Zenon DEF TicketInv
<1> QED
  BY <1>1, <1>2, Zenon DEF WorkerStep, Handling

\* The TTL of Redis takes away a ticket or a reservation, and opens none.
LEMMA ExpireKeepsTickets ==
  ASSUME ClientType, StoreType, TicketInv, Expire
  PROVE  TicketInv' /\ StoreType'
<1>1. UNCHANGED <<client, started, events, sampled>> /\ faults' \in Nat
  BY FaultCounts, Zenon DEF Expire, clientVars, ClientType
<1>2. \/ UNCHANGED tickets /\ idem' \in [Keys -> Tickets \cup {NoTicket}]
      \/ /\ UNCHANGED idem
         /\ \E t \in Tickets : tickets[t] \notin {"none", "expired"}
                             /\ tickets' = [tickets EXCEPT ![t] = "expired"]
  BY Zenon DEF Expire, StoreType
<1>3. StoreType'
  BY <1>1, <1>2, Zenon DEF StoreType, Status
<1>4. \A t \in Tickets : \/ tickets'[t] = tickets[t]
                         \/ tickets[t] # "none" /\ tickets'[t] = "expired"
  <2>1. CASE UNCHANGED tickets
    BY <2>1, Zenon
  <2>2. ASSUME NEW t \in Tickets, tickets[t] \notin {"none", "expired"},
               tickets' = [tickets EXCEPT ![t] = "expired"]
        PROVE  \A u \in Tickets : \/ tickets'[u] = tickets[u]
                                  \/ tickets[u] # "none" /\ tickets'[u] = "expired"
    BY <2>2, Zenon DEF StoreType
  <2> QED
    BY <1>2, <2>1, <2>2, Zenon
<1>5. \A d \in Clients : client[d].pc # "idle" => client[d].ticket \in Tickets
  BY DEF ClientType, IdleClient, Busy
<1>6. TicketInv'
  BY <1>1, <1>4, <1>5, Zenon DEF TicketInv
<1> QED
  BY <1>3, <1>6, Zenon

-----------------------------------------------------------------------------
(* Marks, verdicts and events.                                             *)

\* MarkInv of one worker.
MarkSound(w) ==
  worker[w].pc # "idle" =>
    /\ worker[w].pc \in {"get", "save"} => Ticket(Current(w)) # NoTicket
    /\ worker[w].pc = "ack" => worker[w].mark # "processing"
    /\ worker[w].mark = "stored" => verdicts[Current(w)] \cap Succeeded # {}
    /\ worker[w].mark = "failed" => verdicts[Current(w)] \cap Permanent # {}

\* A worker that is left alone keeps its mark's ground: entries stay as they
\* are, and verdicts are only added.
LEMMA OthersKeepMarks ==
  ASSUME Arithmetic, QueueType, WorkerType, NEW v \in Workers, MarkSound(v),
         worker'[v] = worker[v],
         \A m \in Published : stream'[m] = stream[m] /\ verdicts[m] \subseteq verdicts'[m]
  PROVE  MarkSound(v)'
<1>1. CASE worker[v].pc = "idle"
  BY <1>1, Zenon DEF MarkSound
<1>2. CASE worker[v].pc # "idle"
  <2>1. Current(v) \in Published /\ Current(v)' = Current(v)
    BY <1>2, CurrentIs, Zenon DEF Current
  <2> QED
    BY <2>1, Zenon DEF MarkSound, Ticket
<1> QED
  BY <1>1, <1>2, Zenon

\* A worker handed entries has nothing to mark but that it processes them.
LEMMA TakeMarks ==
  ASSUME QueueType, WorkerType, NEW w \in Workers, NEW todo \in SUBSET (1 .. delivered),
         Take(w, todo), UNCHANGED stream
  PROVE  MarkSound(w)'
<1>1. /\ worker'[w].todo = todo /\ worker'[w].mark = "processing"
      /\ todo = {} <=> worker'[w].pc = "idle"
      /\ todo # {} => worker'[w].pc = FirstStep(Min(todo))
  BY TakeIs, Zenon
<1>2. Current(w)' = Min(todo)
  BY <1>1, Zenon DEF Current
<1> QED
  BY <1>1, <1>2, Zenon DEF MarkSound, FirstStep, Ticket

\* Reading and saving a mark keep the mark backed by a verdict.
LEMMA ProceedMarks ==
  ASSUME QueueType, WorkerType, NEW w \in Workers, worker[w].pc # "idle", MarkSound(w),
         Proceeds(w), UNCHANGED <<stream, verdicts>>,
         worker[w].pc \in {"get", "save"}, worker'[w].mark = worker[w].mark,
         worker'[w].pc \in {"save", AfterMark(w)}
  PROVE  MarkSound(w)'
<1>1. Current(w)' = Current(w)
  BY Zenon DEF Proceeds, Current
<1> QED
  BY <1>1, Zenon DEF MarkSound, AfterMark, Ticket

\* The mark an answer leads to is backed by its verdict.
LEMMA AnsweredMarks ==
  ASSUME Arithmetic, QueueType, WorkerType, NEW w \in Workers, worker[w].pc = "apply",
         Answered(w), UNCHANGED queueVars
  PROVE  MarkSound(w)'
<1> DEFINE verdict == Verdict(stream[Current(w)].cmd)
<1>1. Current(w)' = Current(w) /\ UNCHANGED stream
  BY Zenon DEF Answered, Proceeds, Current, queueVars
<1>2. verdict \in verdicts'[Current(w)]
  BY AnsweredKeepsQueue, Zenon
<1>3. /\ worker'[w].mark = MarkFor(verdict) /\ verdict \in Final
      /\ worker'[w].pc = IF Ticket(Current(w)) = NoTicket THEN "ack" ELSE "get"
  BY Zenon DEF Answered
<1> HIDE DEF verdict
<1>4. verdict \in Succeeded \/ verdict \in Permanent
  BY <1>3, Zenon DEF Final
<1>5. worker'[w].mark = IF verdict \in Succeeded THEN "stored" ELSE "failed"
  BY <1>3, Zenon DEF MarkFor
<1> QED
  BY <1>1, <1>2, <1>3, <1>4, <1>5, Zenon DEF MarkSound, Ticket

\* A step of a worker keeps every mark backed.
LEMMA WorkerStepKeepsMarks ==
  ASSUME Arithmetic, QueueType, WorkerType, MarkInv, NEW w \in Workers, WorkerStep(w)
  PROVE  MarkInv'
<1>1. \A v \in Workers : MarkSound(v)
  BY Zenon DEF MarkInv, MarkSound
<1>2. UNCHANGED stream
  BY Zenon DEF WorkerStep, Subscribe, Handling, Receive, MarkGet, MarkSave, Process, Ack,
         AnyReclaim, Reclaim, WorkerCrash, queueVars
<1>3. \A v \in Workers : v # w => worker'[v] = worker[v]
  BY Zenon DEF WorkerStep, Subscribe, Handling, Receive, MarkGet, MarkSave, Process, Ack,
         AnyReclaim, Reclaim, WorkerCrash, Take, Leave, Proceed, WorkerType
<1>4. \A m \in Published : verdicts[m] \subseteq verdicts'[m]
  <2>1. CASE Process(w)
    <3>1. worker[w].pc # "idle" /\ UNCHANGED queueVars /\ (Answered(w) \/ UNCHANGED verdicts)
      BY <2>1, ProcessIs, Zenon DEF Process
    <3> QED
      BY <3>1, AnsweredKeepsQueue, Zenon
  <2>2. CASE ~Process(w)
    BY <2>2, Zenon DEF WorkerStep, Subscribe, Handling, Receive, MarkGet, MarkSave, Ack,
                AnyReclaim, Reclaim, WorkerCrash
  <2> QED
    BY <2>1, <2>2, Zenon
<1>5. \A v \in Workers : worker'[v] = worker[v] => MarkSound(v)'
  BY <1>1, <1>2, <1>4, OthersKeepMarks, Zenon
<1>6. MarkSound(w)'
  <2>1. CASE Subscribe(w)
    BY <2>1, <1>5, Zenon DEF Subscribe
  <2>2. CASE Receive(w)
    <3>1. {slot[w]} \in SUBSET (1 .. delivered) /\ Take(w, {slot[w]})
      BY <2>2, SeqIs DEF Receive, WorkerType, QueueType
    <3> QED
      BY <1>2, <3>1, TakeMarks, Zenon
  <2>3. CASE AnyReclaim(w)
    <3>1. PICK claimed \in SUBSET pel : Take(w, claimed)
      BY <2>3, Zenon DEF AnyReclaim, Reclaim
    <3>2. claimed \in SUBSET (1 .. delivered)
      BY Zenon DEF QueueType
    <3> QED
      BY <1>2, <3>1, <3>2, TakeMarks, Zenon
  <2>4. CASE MarkGet(w)
    <3>1. /\ worker[w].pc = "get" /\ Proceeds(w) /\ worker'[w].mark = worker[w].mark
          /\ worker'[w].pc \in {"save", AfterMark(w)} /\ UNCHANGED verdicts
      BY <2>4, MarkGetIs, Zenon DEF MarkGet
    <3> QED
      BY <1>1, <1>2, <3>1, ProceedMarks, Zenon
  <2>5. CASE MarkSave(w)
    <3>1. /\ worker[w].pc = "save" /\ Proceeds(w) /\ worker'[w].mark = worker[w].mark
          /\ worker'[w].pc \in {"save", AfterMark(w)} /\ UNCHANGED verdicts
      BY <2>5, MarkSaveIs, Zenon DEF MarkSave
    <3> QED
      BY <1>1, <1>2, <3>1, ProceedMarks, Zenon
  <2>6. CASE Process(w)
    <3>1. worker[w].pc = "apply" /\ UNCHANGED queueVars /\ (Answered(w) \/ Leave(w))
      BY <2>6, ProcessIs, Zenon DEF Process
    <3>2. CASE Leave(w)
      BY <1>2, <3>2, LeaveTodo, TakeMarks, Zenon DEF Leave
    <3> QED
      BY <3>1, <3>2, AnsweredMarks, Zenon
  <2>7. CASE Ack(w)
    BY <1>2, <2>7, LeaveTodo, TakeMarks, Zenon DEF Ack, Leave
  <2>8. CASE WorkerCrash(w)
    BY <2>8, Zenon DEF WorkerCrash, MarkSound, IdleWorker, WorkerType
  <2> QED
    BY <2>1, <2>2, <2>3, <2>4, <2>5, <2>6, <2>7, <2>8, Zenon DEF WorkerStep, Handling
<1> QED
  BY <1>3, <1>5, <1>6, Zenon DEF MarkInv, MarkSound

\* A step of a request handler keeps every mark backed.
LEMMA ClientStepKeepsMarks ==
  ASSUME Arithmetic, ClientType, ClientInv, QueueType, WorkerType, MarkInv,
         NEW c \in Clients,
         ClientStep(c)
  PROVE  MarkInv'
<1>1. \A v \in Workers : MarkSound(v)
  BY Zenon DEF MarkInv, MarkSound
<1>2. UNCHANGED worker
  BY Zenon DEF ClientStep, Begin, Serving, Strict, SetNX, Lookup, Open, Publish, Release,
         Receipt, ClientCrash
<1>3. \A m \in Published : stream'[m] = stream[m] /\ verdicts[m] \subseteq verdicts'[m]
  <2>1. CASE Publish(c)
    BY <2>1, PublishIs, Zenon DEF Grows
  <2>2. CASE ~Publish(c)
    BY <2>2, Zenon DEF ClientStep, Begin, Serving, Strict, SetNX, Lookup, Open, Release,
                Receipt, ClientCrash, queueVars
  <2> QED
    BY <2>1, <2>2, Zenon
<1>4. \A v \in Workers : MarkSound(v)'
  BY <1>1, <1>2, <1>3, OthersKeepMarks, Zenon
<1> QED
  BY <1>4, Zenon DEF MarkInv, MarkSound

\* TicketsTellTheTruth for one entry.
Truthful(m) ==
  Ticket(m) # NoTicket =>
    /\ tickets[Ticket(m)] = "stored" => verdicts[m] \cap Succeeded # {}
    /\ tickets[Ticket(m)] = "failed" => verdicts[m] \cap Permanent # {}

\* Tickets tell the truth when each entry's ticket does.
LEMMA TruthByEntry ==
  TicketsTellTheTruth <=> \A m \in Published : Truthful(m)
BY Zenon DEF TicketsTellTheTruth, Truthful

\* An entry stays truthful when its ticket takes no end, and verdicts are added.
LEMMA StaysTruthful ==
  ASSUME QueueType, StoreType, NEW m \in Published, Truthful(m), stream'[m] = stream[m],
         verdicts[m] \subseteq verdicts'[m],
         \A t \in Tickets : tickets'[t] \in {"stored", "failed"} => tickets'[t] = tickets[t]
  PROVE  Truthful(m)'
<1>1. Ticket(m)' = Ticket(m) /\ (Ticket(m) # NoTicket => Ticket(m) \in Tickets)
  BY TaskType, Zenon DEF Ticket
<1> QED
  BY <1>1, Zenon DEF Truthful

\* A step of a request handler ends no ticket without its entry's verdict.
LEMMA ClientStepKeepsTruth ==
  ASSUME ClientType, ClientInv, QueueType, StoreType, TicketInv, TicketsTellTheTruth,
         NEW c \in Clients, ClientStep(c)
  PROVE  TicketsTellTheTruth'
<1>1. \A m \in Published : Truthful(m)
  BY TruthByEntry, Zenon
<1>2. \A t \in Tickets : tickets'[t] \in {"stored", "failed"} => tickets'[t] = tickets[t]
  <2>1. CASE Serving(c)
    <3>1. client[c].pc # "idle" => client[c].ticket \in Tickets
      BY DEF ClientType, IdleClient, Busy
    <3> QED
      BY <2>1, <3>1, ServingTickets, Zenon DEF StoreType
  <2>2. CASE Begin(c) \/ ClientCrash(c)
    BY <2>2, Zenon DEF Begin, ClientCrash
  <2> QED
    BY <2>1, <2>2, Zenon DEF ClientStep
<1>3. CASE UNCHANGED <<stream, verdicts>>
  <2>1. \A m \in Published : Truthful(m)'
    BY <1>1, <1>2, <1>3, StaysTruthful, Zenon
  <2>2. Published' = Published
    BY <1>3, Zenon DEF Published
  <2> QED
    BY <2>1, <2>2, Zenon DEF TicketsTellTheTruth, Truthful
<1>4. CASE Publish(c) /\ Grows(c)
  <2>1. \A m \in Published : Truthful(m)'
    BY <1>1, <1>2, <1>4, StaysTruthful, Zenon DEF Grows
  <2>2. client[c].pc = "publish" /\ UNCHANGED tickets /\ client[c].ticket \in Tickets
    BY <1>4, PublishIs, ItemType, Zenon DEF Busy
  <2>3. PICK new : new = Len(stream) + 1
    BY Zenon
  <2>4. stream'[new].ticket # NoTicket =>
          tickets'[stream'[new].ticket] \in {"accepted", "expired"}
    BY <1>4, <2>2, <2>3 DEF Grows, NewTask, TicketInv
  <2>5. Truthful(new)'
    BY <2>4, Zenon DEF Truthful, Ticket
  <2>6. \A m \in Published' : Truthful(m)'
    BY <1>4, <2>1, <2>3, <2>5, Zenon DEF Grows
  <2> QED
    BY <2>6, Zenon DEF TicketsTellTheTruth, Truthful
<1>5. UNCHANGED <<stream, verdicts>> \/ (Publish(c) /\ Grows(c))
  <2>1. CASE Publish(c)
    BY <2>1, PublishIs, Zenon
  <2>2. CASE ~Publish(c)
    BY <2>2, Zenon DEF ClientStep, Begin, Serving, Strict, SetNX, Lookup, Open, Release,
                Receipt, ClientCrash, queueVars
  <2> QED
    BY <2>1, <2>2, Zenon
<1> QED
  BY <1>3, <1>4, <1>5, Zenon

\* A step of a worker ends no ticket without its entry's verdict.
LEMMA WorkerStepKeepsTruth ==
  ASSUME Arithmetic, QueueType, WorkerType, StoreType, NumberInv, MarkInv,
         TicketsTellTheTruth,
         NEW w \in Workers, WorkerStep(w)
  PROVE  TicketsTellTheTruth'
<1>1. \A m \in Published : Truthful(m)
  BY TruthByEntry, Zenon
<1>2. UNCHANGED stream /\ Published' = Published
  BY Zenon DEF WorkerStep, Subscribe, Handling, Receive, MarkGet, MarkSave, Process, Ack,
         AnyReclaim, Reclaim, WorkerCrash, queueVars, Published
<1>3. ASSUME NEW m \in Published
      PROVE  Truthful(m)'
  <2>1. CASE MarkSave(w)
    <3>1. Marks(w) /\ UNCHANGED verdicts /\ worker[w].pc = "save"
      BY <2>1, MarkSaveMarks, Zenon DEF MarkSave
    <3>2. CASE UNCHANGED tickets
      BY <1>1, <1>2, <3>1, <3>2, Zenon DEF Truthful, Ticket
    <3>3. CASE tickets' = [tickets EXCEPT ![Ticket(Current(w))] = worker[w].mark]
      <4>1. Current(w) \in Published
        BY <3>1, CurrentIs, Zenon
      <4>2. /\ Ticket(Current(w)) # NoTicket
            /\ worker[w].mark = "stored" => verdicts[Current(w)] \cap Succeeded # {}
            /\ worker[w].mark = "failed" => verdicts[Current(w)] \cap Permanent # {}
        BY <3>1, Zenon DEF MarkInv
      <4>3. CASE m = Current(w)
        BY <1>2, <3>1, <3>3, <4>1, <4>2, <4>3, TaskType, Zenon DEF Truthful, Ticket, StoreType
      <4>4. CASE m # Current(w)
        <5>1. Ticket(m) = NoTicket \/ Ticket(m) # Ticket(Current(w))
          BY <4>1, <4>4, OneEntryPerTicket, Zenon
        <5>2. Ticket(m) # NoTicket =>
                Ticket(m) \in Tickets /\ tickets'[Ticket(m)] = tickets[Ticket(m)]
          BY <3>3, <5>1, TaskType, Zenon DEF StoreType
        <5> QED
          BY <1>1, <1>2, <3>1, <5>2, Zenon DEF Truthful, Ticket
      <4> QED
        BY <4>3, <4>4, Zenon
    <3> QED
      BY <3>1, <3>2, <3>3, Zenon DEF Marks
  <2>2. CASE Process(w)
    <3>1. /\ UNCHANGED <<tickets, queueVars>> /\ worker[w].pc # "idle"
          /\ Answered(w) \/ UNCHANGED verdicts
      BY <2>2, ProcessIs, Zenon DEF Process
    <3>2. verdicts[m] \subseteq verdicts'[m]
      BY <3>1, AnsweredKeepsQueue, Zenon
    <3> QED
      BY <1>1, <1>2, <3>1, <3>2, StaysTruthful, Zenon
  <2>3. CASE ~MarkSave(w) /\ ~Process(w)
    <3>1. UNCHANGED <<tickets, verdicts>>
      BY <2>3, Zenon DEF WorkerStep, Subscribe, Handling, Receive, MarkGet, Ack,
                  AnyReclaim, Reclaim, WorkerCrash
    <3> QED
      BY <1>1, <1>2, <3>1, StaysTruthful, Zenon
  <2> QED
    BY <2>1, <2>2, <2>3, Zenon
<1> QED
  BY <1>2, <1>3, Zenon DEF TicketsTellTheTruth, Truthful

\* A commit keeps one event per event_id.
LEMMA CommitKeepsKeys ==
  ASSUME NEW c \in Command, NEW m \in Nat, StoreType, OneEventPerKey,
         Commit(c, m) \/ UNCHANGED events
  PROVE  OneEventPerKey'
<1>1. CASE UNCHANGED events
  BY <1>1, Zenon DEF OneEventPerKey
<1>2. ASSUME NEW added \in Event, events' = Append(events, added),
             added.key # NoKey => \A i \in DOMAIN events : events[i].key # added.key
      PROVE  OneEventPerKey'
  <2>0. events \in Seq(Event) /\ Len(events) \in Nat
    BY SeqIs, Zenon DEF StoreType
  <2>1. events \in Seq(Event) /\ DOMAIN events = 1 .. Len(events) /\ Len(events) \in Nat
    BY SeqIs, Zenon DEF StoreType
  <2>2. /\ events' \in Seq(Event) /\ Len(events') = Len(events) + 1
        /\ \A i \in 1 .. Len(events) : events'[i] = events[i]
        /\ events'[Len(events) + 1] = added
    <3>1. events' = Append(events, added)
      BY <1>2, Zenon
    <3>2. events' \in Seq(Event)
      BY <2>0, <3>1, AppendIs, Zenon
    <3>3. Len(events') = Len(events) + 1 /\ events'[Len(events) + 1] = added
      BY <2>0, <3>1
    <3>4. \A i \in 1 .. Len(events) : events'[i] = events[i]
      BY <2>0, <3>1
    <3> QED
      BY <3>2, <3>3, <3>4, Zenon
  <2>3. DOMAIN events' = 1 .. Len(events) + 1
    BY <2>2, SeqIs, Zenon
  <2>4. PICK new : new = Len(events) + 1
    BY Zenon
  <2>5. \A i \in DOMAIN events' : i \in DOMAIN events \/ i = new
    BY <2>1, <2>3, <2>4
  <2>6. \A i \in DOMAIN events : events'[i].key = events[i].key
    BY <2>1, <2>2, Zenon
  <2>7. events'[new].key = added.key
    BY <2>2, <2>4, Zenon
  <2>8. ASSUME NEW i \in DOMAIN events', NEW j \in DOMAIN events', i # j,
               events'[i].key = events'[j].key
        PROVE  events'[i].key = NoKey
    <3>1. CASE i \in DOMAIN events /\ j \in DOMAIN events
      BY <2>6, <2>8, <3>1, Zenon DEF OneEventPerKey
    <3>2. CASE i = new /\ j \in DOMAIN events
      BY <1>2, <2>6, <2>7, <2>8, <3>2, Zenon
    <3>3. CASE j = new /\ i \in DOMAIN events
      BY <1>2, <2>6, <2>7, <2>8, <3>3, Zenon
    <3> QED
      BY <2>5, <2>8, <3>1, <3>2, <3>3, Zenon
  <2> QED
    BY <2>8, Zenon DEF OneEventPerKey
<1> QED
  BY <1>1, <1>2, CommitIs, Zenon DEF Commits

\* A step of a request handler stores no second event for an event_id.
LEMMA ClientStepKeepsKeys ==
  ASSUME ClientType, ClientInv, StoreType, OneEventPerKey, NEW c \in Clients, ClientStep(c)
  PROVE  OneEventPerKey'
<1>1. CASE Strict(c)
  <2>1. Item(c) \in Command /\ Commit(Item(c), 0)
    BY <1>1, ItemType, Zenon DEF Strict
  <2> QED
    BY <2>1, CommitKeepsKeys, Zenon
<1>2. CASE ~Strict(c)
  <2>1. UNCHANGED events
    BY <1>2, Zenon DEF ClientStep, Begin, Serving, SetNX, Lookup, Open, Publish, Release,
                Receipt, ClientCrash
  <2> QED
    BY <2>1, Zenon DEF OneEventPerKey
<1> QED
  BY <1>1, <1>2, Zenon

\* A step of a worker stores no second event for an event_id.
LEMMA WorkerStepKeepsKeys ==
  ASSUME Arithmetic, QueueType, WorkerType, StoreType, OneEventPerKey,
         NEW w \in Workers, WorkerStep(w)
  PROVE  OneEventPerKey'
<1>1. CASE Process(w)
  <2>1. /\ worker[w].pc # "idle"
        /\ Commit(stream[Current(w)].cmd, Current(w)) \/ UNCHANGED events
    BY <1>1, ProcessIs, Zenon
  <2>2. Current(w) \in Nat /\ stream[Current(w)].cmd \in Command
    BY <2>1, CurrentIs, TaskType DEF Published
  <2> QED
    BY <2>1, <2>2, CommitKeepsKeys, Zenon
<1>2. CASE ~Process(w)
  <2>1. UNCHANGED events
    BY <1>2, Zenon DEF WorkerStep, Subscribe, Handling, Receive, MarkGet, MarkSave, Ack,
                AnyReclaim, Reclaim, WorkerCrash
  <2> QED
    BY <2>1, Zenon DEF OneEventPerKey
<1> QED
  BY <1>1, <1>2, Zenon

-----------------------------------------------------------------------------
(* The induction.                                                          *)

\* Of a client's steps only Publish touches the queue, and it only adds.
LEMMA ClientStepKeepsQueue ==
  ASSUME ClientType, ClientInv, QueueType, WorkerType, NEW c \in Clients, ClientStep(c)
  PROVE  QueueType' /\ WorkerType'
<1>1. CASE Publish(c)
  BY <1>1, PublishIs, Zenon DEF WorkerType
<1>2. CASE ~Publish(c)
  <2>1. UNCHANGED <<queueVars, slot, worker, verdicts>>
    BY <1>2, Zenon DEF ClientStep, Begin, Serving, ClientCrash, Strict, SetNX, Lookup, Open,
                Release, Receipt, queueVars
  <2> QED
    BY <2>1, QuietQueue, Zenon
<1> QED
  BY <1>1, <1>2, Zenon

\* The program starts in a state of the invariant: nothing accepted, stored
\* or held.
LEMMA InitInd == Init => IndInv
<1> SUFFICES ASSUME Init
             PROVE  IndInv
  BY Zenon
<1>1. ClientType
  <2>1. MaxRequests \in Nat
    BY Limits, Zenon
  <2> QED
    BY <2>1 DEF Init, ClientType
<1>2. stream = <<>> /\ Len(stream) = 0 /\ Published = {}
  BY DEF Init, Published
<1>3. QueueType
  BY <1>2 DEF Init, QueueType
<1>4. WorkerType
  BY DEF Init, WorkerType, IdleWorker, Work
<1>5. StoreType
  BY DEF Init, StoreType, Status
<1>6. ClientInv /\ TicketsDrawnOnce /\ TicketInv
  BY Zenon DEF Init, ClientInv, TicketsDrawnOnce, TicketInv, IdleClient
<1>7. NumberInv
  <2>1. [m \in {} |-> 1] \in [Published -> 1 .. MaxItems]
    BY <1>2, Zenon
  <2>2. Numbered([m \in {} |-> 1])
    BY <1>2, Zenon DEF Numbered
  <2> QED
    BY <2>1, <2>2, Zenon DEF NumberInv
<1>8. MarkInv
  BY Zenon DEF Init, MarkInv, IdleWorker
<1>9. TicketsTellTheTruth
  BY <1>2, Zenon DEF TicketsTellTheTruth
<1>10. events = <<>> /\ DOMAIN events = {}
  BY DEF Init
<1>11. OneEventPerKey
  BY <1>10, Zenon DEF OneEventPerKey
<1> QED
  BY <1>1, <1>3, <1>4, <1>5, <1>6, <1>7, <1>8, <1>9, <1>11, Zenon DEF IndInv, TypeOK

\* Every step of a client, of a worker, of the sampler and of the clock of the
\* TTLs keeps the invariant.
LEMMA NextInd ==
  ASSUME Arithmetic
  PROVE  IndInv /\ [Next]_vars => IndInv'
<1> SUFFICES ASSUME IndInv, [Next]_vars
             PROVE  IndInv'
  BY Zenon
<1> USE DEF IndInv, TypeOK
<1>1. ASSUME NEW c \in Clients, ClientStep(c)
      PROVE  IndInv'
  <2>1. ClientType' /\ ClientInv' /\ TicketsDrawnOnce'
    BY <1>1, ClientStepKeepsClients, Zenon
  <2>2. QueueType' /\ WorkerType'
    BY <1>1, ClientStepKeepsQueue, Zenon
  <2>3. StoreType' /\ NumberInv'
    BY <1>1, ClientStepKeepsStores, ClientStepKeepsNumbers, Zenon
  <2>4. TicketInv'
    BY <1>1, BeginKeepsTickets, ServingKeepsTickets, CrashKeepsTickets, Zenon DEF ClientStep
  <2>5. MarkInv'
    BY <1>1, ClientStepKeepsMarks, Zenon
  <2>6. TicketsTellTheTruth' /\ OneEventPerKey'
    BY <1>1, ClientStepKeepsTruth, ClientStepKeepsKeys, Zenon
  <2> QED
    BY <2>1, <2>2, <2>3, <2>4, <2>5, <2>6, Zenon
<1>2. ASSUME NEW w \in Workers, WorkerStep(w)
      PROVE  IndInv'
  <2>1. UNCHANGED <<client, started, promised, stream>>
    BY <1>2, Zenon DEF WorkerStep, Subscribe, Handling, Receive, MarkGet, MarkSave, Process, Ack,
                AnyReclaim, Reclaim, WorkerCrash, clientVars, queueVars
  <2>2. ClientType' /\ ClientInv' /\ TicketsDrawnOnce' /\ NumberInv'
    BY <2>1, QuietKeepsNumbers, Zenon DEF ClientType, ClientInv, TicketsDrawnOnce
  <2>3. QueueType' /\ WorkerType' /\ StoreType'
    BY <1>2, WorkerStepKeepsQueue, WorkerStepKeepsStores, Zenon
  <2>4. TicketInv' /\ MarkInv'
    BY <1>2, WorkerStepKeepsTickets, WorkerStepKeepsMarks, Zenon
  <2>5. TicketsTellTheTruth' /\ OneEventPerKey'
    BY <1>2, WorkerStepKeepsTruth, WorkerStepKeepsKeys, Zenon
  <2> QED
    BY <2>2, <2>3, <2>4, <2>5, Zenon
<1>3. CASE SampleAll
  <2>1. sampled' \in Nat
    BY <1>3, DepthType, Zenon DEF SampleAll
  <2>2. UNCHANGED <<client, idem, tickets, stream, delivered, pel, slot, worker, events,
                    verdicts, promised, started, faults>>
    BY <1>3, Zenon DEF SampleAll, clientVars, queueVars
  <2> QED
    BY <2>1, <2>2, QuietKeepsNumbers, Zenon
       DEF ClientType, QueueType, WorkerType, StoreType, ClientInv, TicketsDrawnOnce,
           TicketInv, MarkInv, Ticket, Current, TicketsTellTheTruth, Published,
           OneEventPerKey
<1>4. CASE Expire
  <2>1. UNCHANGED <<client, stream, delivered, pel, slot, worker, events, verdicts,
                    promised, started>>
    BY <1>4, Zenon DEF Expire, queueVars
  <2>2. TicketInv' /\ StoreType'
    BY <1>4, ExpireKeepsTickets, Zenon
  <2>3. \A t \in Tickets : tickets'[t] \in {tickets[t], "expired"}
    BY <1>4, Zenon DEF Expire, StoreType
  <2>4. ClientType' /\ QueueType' /\ WorkerType' /\ ClientInv' /\ TicketsDrawnOnce'
        /\ MarkInv' /\ OneEventPerKey'
    BY <2>1, Zenon DEF ClientType, QueueType, WorkerType, ClientInv, TicketsDrawnOnce, MarkInv,
                Ticket, Current, OneEventPerKey
  <2>5. TicketsTellTheTruth'
    <3>1. Published' = Published /\ \A m \in Published : Ticket(m)' = Ticket(m)
      BY <2>1, Zenon DEF Published, Ticket
    <3>2. \A m \in Published : Ticket(m) # NoTicket => Ticket(m) \in Tickets
      BY TaskType, Zenon
    <3> QED
      BY <2>1, <2>3, <3>1, <3>2, Zenon DEF TicketsTellTheTruth
  <2> QED
    BY <2>1, <2>2, <2>4, <2>5, QuietKeepsNumbers, Zenon
<1>5. CASE Done \/ UNCHANGED vars
  <2>1. UNCHANGED vars
    BY <1>5, Zenon DEF Done
  <2> QED
    BY <2>1, QuietKeepsNumbers, Zenon
       DEF vars, ClientType, QueueType, WorkerType, StoreType, ClientInv, TicketsDrawnOnce,
           TicketInv, MarkInv, Ticket, Current, TicketsTellTheTruth, Published,
           OneEventPerKey
<1> QED
  BY <1>1, <1>2, <1>3, <1>4, <1>5, Zenon DEF Next, ClientStep, WorkerStep

-----------------------------------------------------------------------------
(* What a step does to a ticket.                                           *)

\* What a step may do to a ticket: a client opens it once, its TTL lapses, or a
\* worker that read it writes its mark over a status that is still there.
LEMMA TicketSteps ==
  ASSUME IndInv, [Next]_vars, NEW t \in Tickets
  PROVE  \/ tickets'[t] \in {tickets[t], "expired"}
         \/ tickets[t] = "none"
         \/ /\ tickets[t] \notin {"none", "expired"}
            /\ \E w \in Workers : /\ worker[w].pc = "save" /\ t = Ticket(Current(w))
                                  /\ tickets'[t] = worker[w].mark
                                  /\ worker'[w].pc # "save"
<1> USE DEF IndInv, TypeOK
<1>1. ASSUME NEW c \in Clients, ClientStep(c)
      PROVE  tickets'[t] = tickets[t] \/ tickets[t] = "none"
  <2>1. CASE Begin(c) \/ ClientCrash(c)
    BY <2>1, Zenon DEF Begin, ClientCrash
  <2>2. CASE Serving(c)
    <3>1. CASE client[c].pc \in {"open", "receipt"}
      <4>1. client[c].pc # "idle" /\ Unopened(client[c])
        BY <3>1, Zenon DEF ClientInv, Sound, Unopened
      <4>2. tickets[client[c].ticket] = "none"
        BY <4>1, Zenon DEF TicketInv
      <4>3. \/ UNCHANGED tickets
            \/ tickets' = [tickets EXCEPT ![client[c].ticket] = tickets'[client[c].ticket]]
            \/ tickets' = [tickets EXCEPT ![client[c].ticket] = "accepted"]
        BY <2>2, ServingTickets, Zenon
      <4> QED
        BY <4>2, <4>3, Zenon DEF StoreType
    <3>2. CASE client[c].pc \notin {"open", "receipt"}
      BY <2>2, <3>2, ServingTickets, Zenon
    <3> QED
      BY <3>1, <3>2, Zenon
  <2> QED
    BY <1>1, <2>1, <2>2, Zenon DEF ClientStep
<1>2. ASSUME NEW w \in Workers, MarkSave(w)
      PROVE  \/ tickets'[t] = tickets[t]
             \/ /\ tickets[t] \notin {"none", "expired"}
                /\ worker[w].pc = "save" /\ t = Ticket(Current(w))
                /\ tickets'[t] = worker[w].mark /\ worker'[w].pc # "save"
  <2>1. worker[w].pc = "save" /\ Marks(w)
    BY <1>2, MarkSaveMarks, Zenon DEF MarkSave
  <2>2. worker'[w].pc \in {"apply", "ack"}
    BY <1>2, Zenon DEF MarkSave, Proceed, AfterMark, WorkerType, Work
  <2> QED
    BY <2>1, <2>2, Zenon DEF Marks, StoreType
<1>3. ASSUME NEW w \in Workers, WorkerStep(w), ~MarkSave(w)
      PROVE  UNCHANGED tickets
  BY <1>3, Zenon DEF WorkerStep, Subscribe, Handling, Receive, MarkGet, Process, Ack,
              AnyReclaim, Reclaim, WorkerCrash
<1>4. CASE SampleAll \/ Done \/ UNCHANGED vars
  BY <1>4, Zenon DEF SampleAll, Done, vars
<1>5. CASE Expire
  BY <1>5, Zenon DEF Expire, StoreType
<1> QED
  BY <1>1, <1>2, <1>3, <1>4, <1>5, Zenon DEF Next, ClientStep, WorkerStep

-----------------------------------------------------------------------------
(* The queue implements AtLeastOnce.                                       *)

Owed    == {m \in Published : m > delivered \/ m \in pel}
Handled == {m \in Published : verdicts[m] # {}}
Settled == {m \in Published : m <= delivered /\ m \notin pel}

\* The ledger's steps over the three sets.
Accepts(m) == /\ m \in Entries /\ m \notin Owed \cup Settled
              /\ Owed' = Owed \cup {m} /\ UNCHANGED <<Handled, Settled>>

Handles(m) == /\ m \in Entries /\ m \in Owed \cup Settled
              /\ Handled' = Handled \cup {m} /\ UNCHANGED <<Owed, Settled>>

Settles(m) == /\ m \in Entries /\ m \in Owed \cap Handled
              /\ Owed' = Owed \ {m} /\ Settled' = Settled \cup {m} /\ UNCHANGED Handled

\* The same of the next state.
LEMMA StreamBoundedThen ==
  ASSUME Arithmetic
  PROVE  (QueueType /\ NumberInv => Published \subseteq Entries)'
<1>1. QueueType /\ NumberInv => Published \subseteq Entries
  BY StreamBounded, Zenon
<1> QED
  BY <1>1, PTL

\* A published task is owed work that nobody has handled.
LEMMA PublishAccepts ==
  ASSUME Arithmetic, QueueType, NumberInv', QueueType', NEW c \in Clients, Grows(c),
         UNCHANGED <<delivered, pel>>
  PROVE  \E m : Accepts(m)
<1>1. PICK new : new = Len(stream) + 1
  BY Zenon
<1>2. Published' = Published \cup {new} /\ new \notin Published
  BY <1>1, Zenon DEF Grows
<1>3. new \in Entries
  BY <1>2, StreamBoundedThen, Zenon DEF Entries
<1>4. Len(stream) \in Nat /\ delivered \in Nat /\ new > delivered /\ new \in Nat
  BY <1>1, SeqIs DEF QueueType
<1>5. Owed' = Owed \cup {new}
  BY <1>2, <1>4, Zenon DEF Owed
<1>6. Handled' = Handled
  BY <1>1, <1>2, Zenon DEF Handled, Grows
<1>7. Settled' = Settled
  BY <1>2, <1>4 DEF Settled
<1> QED
  BY <1>2, <1>3, <1>5, <1>6, <1>7, Zenon DEF Accepts, Owed, Settled

\* Delivery moves an entry from the tail to the pending list: still owed.
LEMMA SubscribeStutters ==
  ASSUME QueueType, NEW w \in Workers, Subscribe(w)
  PROVE  UNCHANGED <<Owed, Handled, Settled>>
<1>1. /\ delivered \in Nat /\ delivered' = delivered + 1
      /\ pel' = pel \cup {delivered + 1} /\ UNCHANGED <<stream, verdicts>>
  BY SeqIs DEF Subscribe, QueueType
<1>2. Published' = Published /\ Published \subseteq Nat /\ pel \subseteq 1 .. delivered
  BY <1>1, SeqIs DEF Published, QueueType
<1>3. \A m \in Published : m > delivered \/ m \in pel <=> m > delivered' \/ m \in pel'
  BY <1>1, <1>2
<1>4. \A m \in Published :
        m <= delivered /\ m \notin pel <=> m <= delivered' /\ m \notin pel'
  BY <1>1, <1>2
<1>5. Owed' = Owed
  BY <1>2, <1>3, Zenon DEF Owed
<1>6. Settled' = Settled
  BY <1>2, <1>4, Zenon DEF Settled
<1> QED
  BY <1>1, <1>2, <1>5, <1>6, Zenon DEF Handled

\* An answer of the Ingester handles its entry, be it settled by then.
LEMMA AnswerHandles ==
  ASSUME Arithmetic, QueueType, WorkerType, NumberInv, NEW w \in Workers,
         worker[w].pc = "apply",
         Answered(w), UNCHANGED queueVars
  PROVE  \E m : Handles(m)
<1>1. PICK m : m = Current(w)
  BY Zenon
<1>2. m \in Published /\ m \in Entries
  BY <1>1, CurrentIs, StreamBounded, Zenon
<1>3. /\ verdicts'[m] # {}
      /\ \A n \in Published : n # m => verdicts'[n] = verdicts[n]
  BY <1>1, AnsweredKeepsQueue, Zenon
<1>4. UNCHANGED <<stream, delivered, pel, Published>>
  BY Zenon DEF queueVars, Published
<1>5. Handled' = Handled \cup {m}
  BY <1>2, <1>3, <1>4, Zenon DEF Handled
<1>6. UNCHANGED <<Owed, Settled>>
  BY <1>4, Zenon DEF Owed, Settled
<1>7. m \in Owed \cup Settled
  BY <1>2, SeqIs DEF Owed, Settled, QueueType, Published
<1> QED
  BY <1>2, <1>5, <1>6, <1>7, Zenon DEF Handles

\* An acknowledgement settles an entry with a verdict, or one that another
\* worker has settled already.
LEMMA AckSettles ==
  ASSUME Arithmetic, QueueType, WorkerType, NumberInv, MarkInv, NEW w \in Workers,
         Ack(w)
  PROVE  (\E m : Settles(m)) \/ UNCHANGED <<Owed, Handled, Settled>>
<1>1. PICK m : m = Current(w)
  BY Zenon
<1>2. worker[w].pc = "ack" /\ UNCHANGED <<stream, delivered, verdicts, Published>>
  BY Zenon DEF Ack, Published
<1>3. m \in Published /\ m \in Entries /\ m \in 1 .. delivered
  BY <1>1, <1>2, CurrentIs, StreamBounded, Zenon
<1>4. UNCHANGED Handled
  BY <1>2, Zenon DEF Handled
<1>5. m \in Handled
  <2>1. worker[w].mark \in {"processing", "stored", "failed"}
    BY Zenon DEF WorkerType, Work
  <2>2. verdicts[m] # {}
    BY <1>1, <1>2, <2>1, Zenon DEF MarkInv
  <2> QED
    BY <1>3, <2>2, Zenon DEF Handled
<1>6. CASE pel' = pel \ {m} /\ m \in pel
  <2>1. Owed' = Owed \ {m}
    BY <1>2, <1>3, <1>6, SeqIs DEF Owed, QueueType
  <2>2. Settled' = Settled \cup {m}
    BY <1>2, <1>3, <1>6 DEF Settled
  <2>3. m \in Owed
    BY <1>3, <1>6, Zenon DEF Owed
  <2> QED
    BY <1>3, <1>4, <1>5, <2>1, <2>2, <2>3, Zenon DEF Settles
<1>7. CASE UNCHANGED pel \/ (pel' = pel \ {m} /\ m \notin pel)
  <2>1. UNCHANGED pel
    BY <1>7, Zenon
  <2> QED
    BY <1>2, <1>4, <2>1, Zenon DEF Owed, Settled
<1> QED
  BY <1>1, <1>6, <1>7, Zenon DEF Ack

\* Every step of the write path is a step of the ledger or none.
LEMMA StepOfTheLedger ==
  ASSUME Arithmetic, IndInv, [Next]_vars
  PROVE  (\E m : Accepts(m) \/ Handles(m) \/ Settles(m)) \/ UNCHANGED <<Owed, Handled, Settled>>
<1> USE DEF IndInv, TypeOK
<1>1. CASE UNCHANGED <<queueVars, verdicts>>
  BY <1>1, Zenon DEF queueVars, Owed, Handled, Settled, Published
<1>2. ASSUME NEW c \in Clients, Publish(c), Grows(c)
      PROVE  \E m : Accepts(m)
  <2>1. NumberInv' /\ QueueType'
    BY NextInd, Zenon
  <2>2. UNCHANGED <<delivered, pel>>
    BY <1>2, PublishIs, Zenon
  <2> QED
    BY <1>2, <2>1, <2>2, PublishAccepts, Zenon
<1>3. ASSUME NEW w \in Workers, Process(w), Answered(w)
      PROVE  \E m : Handles(m)
  <2>1. UNCHANGED queueVars /\ worker[w].pc = "apply"
    BY <1>3, Zenon DEF Process
  <2> QED
    BY <1>3, <2>1, AnswerHandles, Zenon
<1>4. ASSUME NEW c \in Clients, ClientStep(c)
      PROVE  UNCHANGED <<queueVars, verdicts>> \/ (Publish(c) /\ Grows(c))
  <2>1. CASE Publish(c)
    BY <2>1, PublishIs, Zenon DEF queueVars
  <2>2. CASE ~Publish(c)
    BY <1>4, <2>2, Zenon DEF ClientStep, Begin, Serving, ClientCrash, Strict, SetNX, Lookup, Open,
                      Release, Receipt
  <2> QED
    BY <2>1, <2>2, Zenon
<1>5. ASSUME NEW w \in Workers, WorkerStep(w)
      PROVE  \/ UNCHANGED <<queueVars, verdicts>> \/ (Process(w) /\ Answered(w))
             \/ Subscribe(w) \/ Ack(w)
  <2>1. CASE Process(w)
    <3>1. UNCHANGED queueVars
      BY <2>1, Zenon DEF Process
    <3> QED
      BY <2>1, <3>1, ProcessIs, Zenon
  <2>2. CASE ~Process(w)
    BY <1>5, <2>2, Zenon DEF WorkerStep, Handling, Receive, MarkGet, MarkSave, AnyReclaim, Reclaim,
                      WorkerCrash
  <2> QED
    BY <2>1, <2>2, Zenon
<1>6. CASE SampleAll \/ Expire \/ Done \/ UNCHANGED vars
  BY <1>1, <1>6, Zenon DEF SampleAll, Expire, Done, vars, queueVars
<1> QED
  BY <1>1, <1>2, <1>3, <1>4, <1>5, <1>6, SubscribeStutters, AckSettles, Zenon
     DEF Next, ClientStep, WorkerStep

-----------------------------------------------------------------------------
(* One worker process.                                                     *)

OneWorker == \A v, w \in Workers : v = w

\* The transition a worker is about to save is still legal.
SaveInv ==
  \A w \in Workers : worker[w].pc = "save" =>
    LET status == tickets[Ticket(Current(w))]
    IN  status = "expired" \/ CanTransition(status, worker[w].mark)

\* The stream is as it was, or a client has added an entry to it.
LEMMA StreamSteps ==
  ASSUME IndInv, [Next]_vars
  PROVE  UNCHANGED stream \/ \E c \in Clients : Publish(c) /\ Grows(c)
<1> USE DEF IndInv, TypeOK
<1>1. ASSUME NEW c \in Clients, ClientStep(c)
      PROVE  UNCHANGED stream \/ (Publish(c) /\ Grows(c))
  <2>1. CASE Publish(c)
    BY <2>1, PublishIs, Zenon
  <2>2. CASE ~Publish(c)
    BY <1>1, <2>2, Zenon DEF ClientStep, Begin, Serving, ClientCrash, Strict, SetNX, Lookup, Open,
                      Release, Receipt, queueVars
  <2> QED
    BY <2>1, <2>2, Zenon
<1>2. ASSUME NEW w \in Workers, WorkerStep(w)
      PROVE  UNCHANGED stream
  BY <1>2, Zenon DEF WorkerStep, Subscribe, Handling, Receive, MarkGet, MarkSave, Process, Ack,
              AnyReclaim, Reclaim, WorkerCrash, queueVars
<1>3. CASE SampleAll \/ Expire \/ Done \/ UNCHANGED vars
  BY <1>3, Zenon DEF SampleAll, Expire, Done, vars, queueVars
<1> QED
  BY <1>1, <1>2, <1>3, Zenon DEF Next, ClientStep, WorkerStep

\* Entries are added to the stream and never changed.
LEMMA StreamGrows ==
  ASSUME IndInv, [Next]_vars, NEW m \in Published
  PROVE  m \in Published' /\ stream'[m] = stream[m]
BY StreamSteps, Zenon DEF Grows, Published

\* A worker comes to its save from the read of the ticket alone.
LEMMA SaveFollowsGet ==
  ASSUME IndInv, [Next]_vars, NEW w \in Workers, worker'[w].pc = "save"
  PROVE  \/ worker'[w] = worker[w]
         \/ /\ worker'[w].todo = worker[w].todo /\ worker'[w].mark = worker[w].mark
            /\ worker[w].pc = "get" /\ UNCHANGED <<tickets, stream>>
            /\ CanTransition(tickets[Ticket(Current(w))], worker[w].mark)
<1> USE DEF IndInv, TypeOK
<1>1. ASSUME NEW c \in Clients, ClientStep(c)
      PROVE  worker' = worker
  BY <1>1, Zenon DEF ClientStep, Begin, Serving, ClientCrash, Strict, SetNX, Lookup, Open, Publish,
              Release, Receipt
<1>2. CASE SampleAll \/ Expire \/ Done \/ UNCHANGED vars
  BY <1>2, Zenon DEF SampleAll, Expire, Done, vars
<1>3. ASSUME NEW v \in Workers, WorkerStep(v), v # w
      PROVE  worker'[w] = worker[w]
  BY <1>3, Zenon DEF WorkerStep, Subscribe, Handling, Receive, MarkGet, MarkSave, Process, Ack,
              AnyReclaim, Reclaim, WorkerCrash, Take, Leave, Proceed, WorkerType
<1>4. CASE MarkGet(w)
  <2>1. worker[w].pc = "get" /\ UNCHANGED <<tickets, stream>>
    BY <1>4, Zenon DEF MarkGet, queueVars
  <2>2. \E pc \in {"save", "apply", "ack"} : Proceed(w, pc)
    BY <1>4, Zenon DEF MarkGet, AfterMark
  <2>3. worker'[w].todo = worker[w].todo /\ worker'[w].mark = worker[w].mark
    BY <2>2, ZenonT(40) DEF Proceed, WorkerType, Work
  <2>4. AfterMark(w) # "save"
    BY Zenon DEF AfterMark
  <2>5. ASSUME NEW pc, Proceed(w, pc)
        PROVE  worker'[w].pc = pc
    BY <2>5, Zenon DEF Proceed, WorkerType, Work
  <2>6. CanTransition(tickets[Ticket(Current(w))], worker[w].mark)
    BY <1>4, <2>4, <2>5, Zenon DEF MarkGet
  <2> QED
    BY <2>1, <2>3, <2>6, Zenon
<1>5. ASSUME NEW todo, Take(w, todo)
      PROVE  FALSE
  <2>1. worker'[w].pc \in {"idle", "apply", "get"}
    BY <1>5, Zenon DEF Take, IdleWorker, FirstStep, WorkerType
  <2> QED
    BY <2>1, Zenon
<1>6. CASE WorkerStep(w) /\ ~MarkGet(w)
  <2>1. CASE Subscribe(w)
    BY <2>1, Zenon DEF Subscribe
  <2>2. CASE Receive(w) \/ AnyReclaim(w) \/ Ack(w)
    BY <1>5, <2>2, Zenon DEF Receive, AnyReclaim, Reclaim, Ack, Leave
  <2>3. CASE MarkSave(w)
    BY <2>3, Zenon DEF MarkSave, Proceed, AfterMark, WorkerType, Work
  <2>4. CASE Process(w)
    BY <1>5, <2>4, ProcessIs, Zenon DEF Answered, Leave
  <2>5. CASE WorkerCrash(w)
    BY <2>5, Zenon DEF WorkerCrash, IdleWorker, WorkerType
  <2> QED
    BY <1>6, <2>1, <2>2, <2>3, <2>4, <2>5, Zenon DEF WorkerStep, Handling
<1> QED
  BY <1>1, <1>2, <1>3, <1>4, <1>6, Zenon DEF Next, ClientStep, WorkerStep

\* With one worker nobody else writes a ticket between its read and its save
\* but its TTL.
LEMMA NextSaves ==
  ASSUME Arithmetic, OneWorker, IndInv, SaveInv, [Next]_vars
  PROVE  SaveInv'
<1> SUFFICES ASSUME NEW w \in Workers, worker'[w].pc = "save"
             PROVE  \/ tickets'[Ticket(Current(w))'] = "expired"
                    \/ CanTransition(tickets'[Ticket(Current(w))'], worker'[w].mark)
  BY Zenon DEF SaveInv
<1>1. worker'[w].todo = worker[w].todo /\ worker'[w].mark = worker[w].mark
      /\ worker[w].pc \in {"get", "save"}
  BY SaveFollowsGet, Zenon
<1>2. PICK m : m = Current(w)
  BY Zenon
<1>3. Current(w)' = m /\ m \in Published
  BY <1>1, <1>2, CurrentIs, Zenon DEF Current, IndInv, TypeOK
<1>4. Ticket(Current(w))' = Ticket(m) /\ stream'[m] = stream[m]
  <2>1. stream'[m] = stream[m]
    BY <1>3, StreamGrows, Zenon
  <2> QED
    BY <1>3, <2>1, Zenon DEF Ticket
<1>5. PICK t : t = Ticket(m)
  BY Zenon
<1>6. t \in Tickets
  BY <1>1, <1>2, <1>3, <1>5, TaskType, Zenon DEF IndInv, TypeOK, MarkInv
<1>7. CASE worker'[w] = worker[w]
  <2>1. tickets[t] = "expired" \/ CanTransition(tickets[t], worker[w].mark)
    BY <1>2, <1>5, <1>7, Zenon DEF SaveInv
  <2>2. tickets[t] # "none"
    BY <2>1, Zenon DEF CanTransition
  <2>3. tickets'[t] \in {tickets[t], "expired"}
    BY <1>6, <2>2, TicketSteps, Zenon DEF OneWorker
  <2> QED
    BY <1>4, <1>5, <1>7, <2>1, <2>3, Zenon
<1>8. CASE UNCHANGED tickets /\ CanTransition(tickets[Ticket(Current(w))], worker[w].mark)
  BY <1>1, <1>2, <1>4, <1>5, <1>8, Zenon
<1> QED
  BY <1>7, <1>8, SaveFollowsGet, Zenon

-----------------------------------------------------------------------------
(* No call to Redis fails and no API process dies: the reservations.       *)

RedisAnswers == FaultKinds \cap {"redis", "api crash"} = {}

Ships(k) == \E m \in Published : stream[m].origin = idem[k]

Holds(c, k) == /\ client[c].pc # "idle" /\ client[c].dedup
               /\ client[c].ticket = idem[k] /\ Item(c).key = k

\* A reservation belongs to a task that shipped or to a request at work on it.
HeldInv == \A k \in Keys : idem[k] # NoTicket => Ships(k) \/ \E c \in Clients : Holds(c, k)

\* A client's step is about its own request.
LEMMA OthersKeepRequests ==
  ASSUME IndInv, NEW c \in Clients, ClientStep(c), NEW d \in Clients, d # c
  PROVE  client'[d] = client[d]
<1> USE DEF IndInv, TypeOK
<1>1. CASE Begin(c)
  BY <1>1, Zenon DEF Begin, ClientType
<1>2. CASE Serving(c)
  BY <1>2, ServingServes, Zenon DEF Serves, ClientType
<1>3. CASE ClientCrash(c)
  BY <1>3, Zenon DEF ClientCrash, ClientType
<1> QED
  BY <1>1, <1>2, <1>3, Zenon DEF ClientStep

\* The holder of a reservation goes on towards its publish, ships it, or gives
\* the reservation back.
LEMMA HolderGoesOn ==
  ASSUME RedisAnswers, IndInv, NEW c \in Clients, ClientStep(c), NEW k \in Keys,
         Holds(c, k), idem'[k] = idem[k], idem[k] # NoTicket
  PROVE  Ships(k)' \/ Holds(c, k)'
<1> USE DEF IndInv, TypeOK
<1>1. client[c].pc \in {"open", "publish", "release"} /\ client[c] \in Busy
  BY ItemType, Zenon DEF Holds, ClientInv, Sound
<1>2. \A kind \in {"redis", "api crash"} : ~Fault(kind)
  BY Zenon DEF RedisAnswers, Fault
<1>3. ASSUME NEW pc \in BusyPc, Goto(c, pc)
      PROVE  Holds(c, k)'
  <2>1. /\ client'[c].pc = pc /\ client'[c].req = client[c].req /\ client'[c].i = client[c].i
        /\ client'[c].ticket = client[c].ticket /\ client'[c].dedup = client[c].dedup
    BY <1>1, <1>3, GotoIs, Zenon
  <2>2. pc # "idle"
    BY Zenon DEF BusyPc
  <2>3. Item(c)' = Item(c)
    BY <2>1, Zenon DEF Item
  <2> QED
    BY <2>1, <2>2, <2>3, Zenon DEF Holds
<1>4. CASE Open(c)
  <2>1. Goto(c, "publish")
    BY <1>2, <1>4, Zenon DEF Open
  <2> QED
    BY <1>3, <2>1, Zenon DEF BusyPc
<1>5. CASE Publish(c)
  <2>1. CASE Grows(c)
    <3>1. PICK new : new = Len(stream) + 1
      BY Zenon
    <3>2. new \in Published' /\ stream'[new].origin = client[c].ticket
      BY <2>1, <3>1 DEF Grows, NewTask
    <3> QED
      BY <3>2, Zenon DEF Ships, Holds
  <2>2. CASE ~Grows(c)
    <3>1. UNCHANGED <<stream, verdicts>> /\ Len(stream) \in Nat
      BY <1>5, <2>2, PublishIs, SeqIs, Zenon DEF QueueType
    <3>2. stream' # Append(stream, NewTask(c))
      BY <3>1 DEF QueueType
    <3>3. Fail(c)
      BY <1>5, <3>2, Zenon DEF Publish, NewTask
    <3>4. Goto(c, "release")
      BY <3>3, Zenon DEF Fail, Holds
    <3> QED
      BY <1>3, <3>4, Zenon DEF BusyPc
  <2> QED
    BY <2>1, <2>2, Zenon
<1>6. CASE Release(c)
  <2>1. idem' = [idem EXCEPT ![Item(c).key] = NoTicket]
    BY <1>2, <1>6, Zenon DEF Release
  <2>2. idem'[k] = NoTicket
    BY <2>1, Zenon DEF Holds, StoreType
  <2> QED
    BY <2>2, Zenon
<1>7. ~(Begin(c) \/ Strict(c) \/ SetNX(c) \/ Lookup(c) \/ Receipt(c) \/ ClientCrash(c))
  BY <1>1, <1>2, Zenon DEF Begin, Strict, SetNX, Lookup, Receipt, ClientCrash
<1> QED
  BY <1>4, <1>5, <1>6, <1>7, Zenon DEF ClientStep, Serving

\* A step of a client keeps every reservation accounted for.
LEMMA ClientStepKeepsHeld ==
  ASSUME RedisAnswers, IndInv, HeldInv, NEW c \in Clients, ClientStep(c)
  PROVE  HeldInv'
<1> USE DEF IndInv, TypeOK
<1>1. [Next]_vars
  BY Zenon DEF ClientStep, Next
<1> SUFFICES ASSUME NEW k \in Keys, idem'[k] # NoTicket
             PROVE  Ships(k)' \/ \E d \in Clients : Holds(d, k)'
  BY Zenon DEF HeldInv
<1>2. CASE idem'[k] = idem[k]
  <2>1. CASE Ships(k)
    <3>1. PICK m \in Published : stream[m].origin = idem[k]
      BY <2>1, Zenon DEF Ships
    <3>2. m \in Published' /\ stream'[m] = stream[m]
      BY <1>1, <3>1, StreamGrows, Zenon
    <3> QED
      BY <1>2, <3>1, <3>2, Zenon DEF Ships
  <2>2. ASSUME NEW d \in Clients, Holds(d, k), d # c
        PROVE  Holds(d, k)'
    <3>1. client'[d] = client[d]
      BY <2>2, OthersKeepRequests, Zenon
    <3> QED
      BY <1>2, <2>2, <3>1, Zenon DEF Holds, Item
  <2>3. ASSUME Holds(c, k)
        PROVE  Ships(k)' \/ Holds(c, k)'
    BY <1>2, <2>3, HolderGoesOn, Zenon
  <2> QED
    BY <1>2, <2>1, <2>2, <2>3, Zenon DEF HeldInv
<1>3. CASE idem'[k] # idem[k]
  <2>1. SetNX(c) /\ idem' = [idem EXCEPT ![Item(c).key] = client[c].ticket]
        /\ client' = [client EXCEPT ![c].pc = Unreserved(c), ![c].dedup = TRUE]
    BY <1>3, Zenon DEF ClientStep, Begin, Serving, ClientCrash, Strict, SetNX, Lookup, Open, Publish,
                Release, Receipt, StoreType
  <2>2. client[c] \in Busy
    BY <2>1, ItemType, Zenon DEF SetNX
  <2>3. k = Item(c).key /\ idem'[k] = client[c].ticket
    BY <1>3, <2>1, Zenon DEF StoreType
  <2>4. /\ client'[c].pc = Unreserved(c) /\ client'[c].dedup = TRUE
        /\ client'[c].ticket = client[c].ticket /\ client'[c].req = client[c].req
        /\ client'[c].i = client[c].i
    BY <2>1, <2>2, Zenon DEF ClientType, Busy
  <2>5. Item(c)' = Item(c)
    BY <2>4, Zenon DEF Item
  <2> QED
    BY <2>3, <2>4, <2>5, Zenon DEF Holds, Unreserved
<1> QED
  BY <1>2, <1>3, Zenon

\* So does every other step: a TTL only takes a reservation away.
LEMMA NextHeld ==
  ASSUME RedisAnswers, IndInv, HeldInv, [Next]_vars
  PROVE  HeldInv'
<1>1. ASSUME UNCHANGED <<client, stream>>, \A k \in Keys : idem'[k] \in {idem[k], NoTicket}
      PROVE  HeldInv'
  <2> SUFFICES ASSUME NEW k \in Keys, idem'[k] # NoTicket
               PROVE  Ships(k)' \/ \E d \in Clients : Holds(d, k)'
    BY Zenon DEF HeldInv
  <2>1. idem'[k] = idem[k]
    BY <1>1, Zenon
  <2> QED
    BY <1>1, <2>1, ZenonT(40) DEF HeldInv, Ships, Holds, Item, Published
<1>2. ASSUME NEW w \in Workers, WorkerStep(w)
      PROVE  UNCHANGED <<client, stream, idem>>
  BY <1>2, Zenon DEF WorkerStep, Subscribe, Handling, Receive, MarkGet, MarkSave, Process, Ack,
              AnyReclaim, Reclaim, WorkerCrash, clientVars, queueVars
<1>3. CASE SampleAll \/ Done \/ UNCHANGED vars
  BY <1>1, <1>3, Zenon DEF SampleAll, Done, vars, clientVars, queueVars
<1>4. CASE Expire
  BY <1>1, <1>4, Zenon DEF Expire, queueVars, IndInv, TypeOK, StoreType
<1> QED
  BY <1>1, <1>2, <1>3, <1>4, ClientStepKeepsHeld, Zenon DEF Next, ClientStep, WorkerStep

-----------------------------------------------------------------------------
(* One worker process, no expected_version: the order of the writes.       *)

Unconditional == \A r \in Requests : \A i \in DOMAIN r.items : r.items[i].expected = Nil

TasksInv == \A m \in Published : stream[m].cmd.expected = Nil

\* What the worker may still apply.
InHand(w) == (worker[w].todo \cup {slot[w]}) \ {0}

\* As long as nothing has failed, the pending entries are the ones in the
\* worker's hands, the one that waits is the last one delivered, and nothing
\* in its hands is older than what has been applied.
HandsInv ==
  /\ \A i \in DOMAIN events : events[i].entry <= delivered
  /\ \A w \in Workers : pel \subseteq InHand(w) /\ slot[w] \in {0, delivered}
  /\ \A w \in Workers : \A i \in DOMAIN events, m \in InHand(w) : events[i].entry <= m

\* Before an event of an entry come events of all older entries that wrote any.
EntriesInOrder ==
  \A j \in DOMAIN events : \A m \in Nat \ {0} :
    m < events[j].entry /\ Wrote(m) => \E i \in DOMAIN events : i < j /\ events[i].entry = m

OrderInv == TasksInv /\ (faults = 0 => HandsInv /\ EntriesInOrder)

\* The first event of an entry is one of its events, and none is before it.
LEMMA FirstEventIs ==
  ASSUME Arithmetic, StoreType, NEW m, Wrote(m)
  PROVE  /\ FirstEvent(m) \in DOMAIN events /\ events[FirstEvent(m)].entry = m
         /\ \A i \in DOMAIN events : events[i].entry = m => FirstEvent(m) <= i
<1> DEFINE S == {i \in DOMAIN events : events[i].entry = m}
<1>1. S \subseteq Nat /\ S # {}
  BY SeqIs DEF StoreType, Wrote
<1>2. FirstEvent(m) = Min(S)
  BY Zenon DEF FirstEvent
<1> HIDE DEF S
<1>3. Min(S) \in S /\ \A i \in S : Min(S) <= i
  BY <1>1, MinIs, Zenon
<1> QED
  BY <1>2, <1>3, Zenon DEF S

\* The order of the events is the order the promise is about.
LEMMA OrderImplies ==
  ASSUME Arithmetic, IndInv, OrderInv
  PROVE  AppliedInOrder
<1> SUFFICES ASSUME faults = 0, NEW m \in Published, NEW n \in Published, m < n,
                    Wrote(m), Wrote(n)
             PROVE  FirstEvent(m) < FirstEvent(n)
  BY Zenon DEF AppliedInOrder
<1>1. StoreType
  BY Zenon DEF IndInv, TypeOK
<1>2. FirstEvent(n) \in DOMAIN events /\ events[FirstEvent(n)].entry = n
  BY <1>1, FirstEventIs, Zenon
<1>3. PICK i \in DOMAIN events : i < FirstEvent(n) /\ events[i].entry = m
  BY <1>2 DEF OrderInv, EntriesInOrder, Published
<1>4. FirstEvent(m) <= i /\ FirstEvent(m) \in DOMAIN events
  BY <1>1, <1>3, FirstEventIs, Zenon
<1>5. DOMAIN events \subseteq Nat
  BY <1>1, SeqIs DEF StoreType
<1> QED
  BY <1>2, <1>3, <1>4, <1>5

\* Only commands of requests enter the stream.
LEMMA NextTasks ==
  ASSUME Unconditional, IndInv, TasksInv, [Next]_vars
  PROVE  TasksInv'
<1> USE DEF IndInv, TypeOK
<1>1. ASSUME NEW c \in Clients, Publish(c), Grows(c)
      PROVE  TasksInv'
  <2>1. client[c].pc = "publish"
    BY <1>1, PublishIs, Zenon
  <2>2. client[c] \in Busy /\ client[c].i \in 1 .. Len(client[c].req.items)
    BY <2>1, ItemType, Zenon
  <2>3. client[c].req \in Requests
    BY <2>2, Zenon DEF Busy
  <2>4. client[c].req.items \in Seq(Command)
    BY <2>3, DurableAssumption, Zenon DEF Request
  <2>5. client[c].i \in DOMAIN client[c].req.items
    BY <2>2, <2>4, SeqIs, Zenon
  <2>6. Item(c).expected = Nil
    BY <2>3, <2>5, Zenon DEF Unconditional, Item
  <2>7. PICK new : new = Len(stream) + 1
    BY Zenon
  <2>8. stream'[new].cmd.expected = Nil
    BY <1>1, <2>6, <2>7 DEF Grows, NewTask
  <2> QED
    BY <1>1, <2>7, <2>8, Zenon DEF TasksInv, Grows
<1>2. CASE UNCHANGED stream
  BY <1>2, Zenon DEF TasksInv, Published
<1>3. UNCHANGED stream \/ \E c \in Clients : Publish(c) /\ Grows(c)
  BY StreamSteps, Zenon
<1> QED
  BY <1>1, <1>2, <1>3, Zenon

\* Without a fault the worker keeps what is pending in its hands, and takes
\* nothing up that was not there or is not the next entry.
LEMMA HandsMove ==
  ASSUME Arithmetic, OneWorker, IndInv, TasksInv, HandsInv, NEW w \in Workers,
         WorkerStep(w), faults' = faults
  PROVE  /\ pel' \subseteq InHand(w)' /\ slot'[w] \in {0, delivered'}
         /\ delivered' \in Nat /\ delivered <= delivered'
         /\ \A m \in InHand(w)' : m \in InHand(w) \/ m > delivered
<1> USE DEF IndInv, TypeOK
<1>1. /\ delivered \in Nat /\ pel \subseteq InHand(w) /\ slot[w] \in {0, delivered}
      /\ faults \in Nat
  BY SeqIs DEF QueueType, StoreType, HandsInv
<1>2. \A kind : ~Fault(kind)
  BY <1>1 DEF Fault
<1>3. CASE Subscribe(w)
  <2>1. /\ slot[w] = 0 /\ delivered' = delivered + 1 /\ pel' = pel \cup {delivered + 1}
        /\ slot'[w] = delivered + 1 /\ UNCHANGED worker
    BY <1>3, Zenon DEF Subscribe, WorkerType
  <2> QED
    BY <1>1, <2>1 DEF InHand
<1>4. CASE Receive(w)
  <2>1. /\ worker[w].pc = "idle" /\ slot[w] # 0 /\ slot'[w] = 0 /\ UNCHANGED <<delivered, pel>>
        /\ Take(w, {slot[w]})
    BY <1>4, Zenon DEF Receive, WorkerType, queueVars
  <2>2. worker'[w].todo = {slot[w]} /\ worker[w].todo = {}
    BY <2>1, Zenon DEF Take, WorkerType
  <2> QED
    BY <1>1, <2>1, <2>2 DEF InHand
<1>5. ASSUME NEW claimed \in SUBSET pel, Reclaim(w, claimed)
      PROVE  /\ worker'[w].todo = {slot[w]} /\ worker[w].todo = {} /\ slot[w] # 0
             /\ UNCHANGED <<delivered, pel, slot>>
  <2>1. worker[w].pc = "idle" /\ claimed # {} /\ Take(w, claimed)
        /\ UNCHANGED <<delivered, pel, slot>>
    BY <1>5, Zenon DEF Reclaim, queueVars
  <2>2. worker'[w].todo = claimed /\ worker[w].todo = {}
    BY <2>1, Zenon DEF Take, WorkerType
  <2> QED
    BY <1>1, <2>1, <2>2, Zenon DEF InHand
<1>6. CASE AnyReclaim(w)
  <2>1. /\ worker'[w].todo = {slot[w]} /\ worker[w].todo = {} /\ slot[w] # 0
        /\ UNCHANGED <<delivered, pel, slot>>
    BY <1>5, <1>6, Zenon DEF AnyReclaim
  <2> QED
    BY <1>1, <2>1 DEF InHand
<1>7. ASSUME worker'[w].todo = worker[w].todo, UNCHANGED <<delivered, pel, slot>>
      PROVE  /\ pel' \subseteq InHand(w)' /\ slot'[w] \in {0, delivered'}
             /\ delivered' \in Nat /\ delivered <= delivered'
             /\ \A m \in InHand(w)' : m \in InHand(w) \/ m > delivered
  BY <1>1, <1>7 DEF InHand
<1>8. CASE MarkGet(w) \/ MarkSave(w)
  <2>1. worker'[w].todo = worker[w].todo
    BY <1>8 DEF MarkGet, MarkSave, Proceed, WorkerType, Work
  <2>2. UNCHANGED <<delivered, pel, slot>>
    BY <1>8, Zenon DEF MarkGet, MarkSave, queueVars
  <2> QED
    BY <1>7, <2>1, <2>2, Zenon
<1>9. CASE Process(w)
  <2>1. worker[w].pc = "apply" /\ UNCHANGED <<delivered, pel, slot>>
    BY <1>9, Zenon DEF Process, queueVars
  <2>2. Current(w) \in Published
    BY <2>1, CurrentIs, Zenon
  <2>3. stream[Current(w)].cmd.expected = Nil
    BY <2>2, Zenon DEF TasksInv
  <2>4. Verdict(stream[Current(w)].cmd) \in Final
    BY <2>3, Zenon DEF Verdict, Final, Succeeded, Permanent
  <2>5. \E mark, pc : worker' = [worker EXCEPT ![w].mark = mark, ![w].pc = pc]
    BY <1>2, <1>9, <2>4, Zenon DEF Process
  <2>6. worker'[w].todo = worker[w].todo
    BY <2>5 DEF WorkerType, Work
  <2> QED
    BY <1>7, <2>1, <2>6, Zenon
<1>10. CASE Ack(w)
  <2>1. pel' = pel \ {Current(w)} /\ UNCHANGED <<delivered, slot>> /\ Leave(w)
    BY <1>2, <1>10, Zenon DEF Ack
  <2>2. worker'[w].todo = worker[w].todo \ {Current(w)}
    BY <2>1, LeaveTodo, TakeIs, Zenon DEF Leave
  <2> QED
    BY <1>1, <2>1, <2>2 DEF InHand
<1> QED
  BY <1>2, <1>3, <1>4, <1>6, <1>8, <1>9, <1>10, Zenon DEF WorkerStep, Handling, WorkerCrash

\* An event more, of a strict write or of the entry the worker is at, which
\* moves nothing in its hands.
LEMMA EventSteps ==
  ASSUME Arithmetic, IndInv, [Next]_vars, events' # events
  PROVE  \E ev \in Event :
           /\ events' = Append(events, ev)
           /\ \/ ev.entry = 0
              \/ \E w \in Workers : /\ worker[w].pc = "apply" /\ ev.entry = Current(w)
                                    /\ UNCHANGED <<delivered, slot, pel, stream>>
                                    /\ WorkerStep(w)
<1> USE DEF IndInv, TypeOK
<1>1. ASSUME NEW c \in Clients, Strict(c)
      PROVE  \E ev \in Event : events' = Append(events, ev) /\ ev.entry = 0
  <2>1. Item(c) \in Command /\ Commit(Item(c), 0)
    BY <1>1, ItemType, Zenon DEF Strict
  <2> QED
    BY <2>1, CommitIs, ZenonT(40) DEF Commits
<1>2. ASSUME NEW w \in Workers, Process(w)
      PROVE  \E ev \in Event : /\ events' = Append(events, ev) /\ ev.entry = Current(w)
                               /\ worker[w].pc = "apply"
                               /\ UNCHANGED <<delivered, slot, pel, stream>>
  <2>1. worker[w].pc = "apply" /\ UNCHANGED <<delivered, slot, pel, stream>>
    BY <1>2, Zenon DEF Process, queueVars
  <2>2. Current(w) \in Nat /\ Current(w) \in Published
    BY <2>1, CurrentIs DEF Published
  <2>3. stream[Current(w)].cmd \in Command /\ Commit(stream[Current(w)].cmd, Current(w))
    BY <1>2, <2>2, TaskType, ProcessIs, Zenon
  <2> QED
    BY <2>1, <2>2, <2>3, CommitIs DEF Commits
<1>3. ASSUME NEW c \in Clients, ClientStep(c)
      PROVE  Strict(c)
  BY <1>3, Zenon DEF ClientStep, Begin, Serving, ClientCrash, SetNX, Lookup, Open, Publish, Release,
              Receipt
<1>4. ASSUME NEW w \in Workers, WorkerStep(w)
      PROVE  Process(w)
  BY <1>4, Zenon DEF WorkerStep, Subscribe, Handling, Receive, MarkGet, MarkSave, Ack, AnyReclaim,
              Reclaim, WorkerCrash
<1>5. ~(SampleAll \/ Expire \/ Done \/ UNCHANGED vars)
  BY Zenon DEF SampleAll, Expire, Done, vars
<1> QED
  BY <1>1, <1>2, <1>3, <1>4, <1>5, Zenon DEF Next, ClientStep, WorkerStep

\* Faults are only ever counted up.
LEMMA FaultsGrow ==
  ASSUME IndInv, [Next]_vars
  PROVE  faults' \in {faults, faults + 1}
<1>1. ASSUME NEW c \in Clients, ClientStep(c)
      PROVE  faults' \in {faults, faults + 1}
  BY <1>1, Zenon DEF ClientStep, Begin, Serving, ClientCrash, Strict, SetNX, Lookup, Open, Publish,
              Release, Receipt, Fault
<1>2. ASSUME NEW w \in Workers, WorkerStep(w)
      PROVE  faults' \in {faults, faults + 1}
  BY <1>2, Zenon DEF WorkerStep, Subscribe, Handling, Receive, MarkGet, MarkSave, Process, Ack,
              AnyReclaim, Reclaim, WorkerCrash, Fault
<1>3. CASE SampleAll \/ Expire \/ Done \/ UNCHANGED vars
  BY <1>3, Zenon DEF SampleAll, Expire, Done, vars, Fault
<1> QED
  BY <1>1, <1>2, <1>3, Zenon DEF Next, ClientStep, WorkerStep

\* Every step without a fault moves the worker's hands as HandsMove says.
LEMMA HandsMoveAlways ==
  ASSUME Arithmetic, OneWorker, IndInv, TasksInv, HandsInv, [Next]_vars,
         faults' = faults,
         NEW w \in Workers
  PROVE  /\ pel' \subseteq InHand(w)' /\ slot'[w] \in {0, delivered'}
         /\ delivered' \in Nat /\ delivered <= delivered'
         /\ \A m \in InHand(w)' : m \in InHand(w) \/ m > delivered
<1>1. CASE WorkerStep(w)
  BY <1>1, HandsMove, Zenon
<1>2. CASE UNCHANGED <<delivered, pel, slot, worker>>
  <2>1. delivered \in Nat
    BY SeqIs DEF IndInv, TypeOK, QueueType
  <2> QED
    BY <1>2, <2>1 DEF HandsInv, InHand
<1>3. ASSUME NEW c \in Clients, ClientStep(c)
      PROVE  UNCHANGED <<delivered, pel, slot, worker>>
  BY <1>3, Zenon DEF ClientStep, Begin, Serving, ClientCrash, Strict, SetNX, Lookup, Open, Publish,
              Release, Receipt, queueVars
<1>4. SampleAll \/ Expire \/ Done \/ UNCHANGED vars => UNCHANGED <<delivered, pel, slot, worker>>
  BY Zenon DEF SampleAll, Expire, Done, vars, queueVars
<1> QED
  BY <1>1, <1>2, <1>3, <1>4, Zenon DEF Next, ClientStep, WorkerStep, OneWorker

\* An event carries the position of its entry, or 0.
LEMMA EventType ==
  ASSUME StoreType, NEW i \in DOMAIN events
  PROVE  events[i].entry \in Nat
<1>1. events \in Seq(Event)
  BY Zenon DEF StoreType
<1>2. i \in 1 .. Len(events)
  BY <1>1, SeqIs, Zenon
<1>3. events[i] \in Event
  BY <1>1, <1>2, SeqIs, Zenon
<1> QED
  BY <1>3, Zenon DEF Event

\* The events with one more.
LEMMA EventsAppended ==
  ASSUME StoreType, NEW ev \in Event, events' = Append(events, ev)
  PROVE  /\ Len(events) \in Nat /\ DOMAIN events = 1 .. Len(events)
         /\ DOMAIN events' = 1 .. Len(events) + 1
         /\ \A i \in DOMAIN events : events'[i] = events[i]
         /\ events'[Len(events) + 1] = ev
<1>1. events \in Seq(Event) /\ Len(events) \in Nat
  BY SeqIs, Zenon DEF StoreType
<1>2. events' \in Seq(Event) /\ Len(events') = Len(events) + 1
  BY <1>1, AppendIs, Zenon
<1>3. \A i \in 1 .. Len(events) : events'[i] = events[i]
  BY <1>1
<1>4. events'[Len(events) + 1] = ev
  BY <1>1
<1>5. DOMAIN events = 1 .. Len(events) /\ DOMAIN events' = 1 .. Len(events')
  BY <1>1, <1>2, SeqIs, Zenon
<1> QED
  BY <1>1, <1>2, <1>3, <1>4, <1>5, Zenon

\* Without a fault the worker's hands stay ahead of what has been applied.
LEMMA NextHands ==
  ASSUME Arithmetic, OneWorker, IndInv, TasksInv, HandsInv, [Next]_vars,
         faults' = faults
  PROVE  HandsInv'
<1> USE DEF IndInv, TypeOK
<1>1. ASSUME NEW w \in Workers
      PROVE  /\ pel' \subseteq InHand(w)' /\ slot'[w] \in {0, delivered'}
             /\ delivered' \in Nat /\ delivered <= delivered'
             /\ \A m \in InHand(w)' : m \in InHand(w) \/ m > delivered
  BY HandsMoveAlways, Zenon
<1>2. delivered \in Nat /\ delivered' \in Nat /\ delivered <= delivered'
  <2>1. delivered \in Nat
    BY SeqIs DEF QueueType
  <2>2. CASE Workers = {}
    <3>1. ASSUME NEW c \in Clients, ClientStep(c)
          PROVE  UNCHANGED delivered
      BY <3>1, Zenon DEF ClientStep, Begin, Serving, ClientCrash, Strict, SetNX, Lookup, Open,
                  Publish, Release, Receipt, queueVars
    <3>2. SampleAll \/ Expire \/ Done \/ UNCHANGED vars => UNCHANGED delivered
      BY Zenon DEF SampleAll, Expire, Done, vars, queueVars
    <3>3. UNCHANGED delivered
      BY <2>2, <3>1, <3>2, Zenon DEF Next, ClientStep
    <3> QED
      BY <2>1, <3>3
  <2> QED
    BY <1>1, <2>1, <2>2, Zenon
<1>3. \A w \in Workers : InHand(w)' \subseteq Nat
  <2>1. WorkerType'
    BY NextInd, Zenon
  <2> QED
    BY <2>1 DEF WorkerType, InHand, Work
<1>4. \A i \in DOMAIN events : events[i].entry \in Nat
  BY EventType, Zenon
<1>5. ASSUME NEW e \in Nat, e <= delivered, NEW w \in Workers,
             \A m \in InHand(w) : e <= m, NEW m \in InHand(w)'
      PROVE  e <= m
  <2>1. m \in Nat /\ (m \in InHand(w) \/ m > delivered)
    BY <1>1, <1>3, <1>5, Zenon
  <2> QED
    BY <1>2, <1>5, <2>1
<1>6. \A i \in DOMAIN events : /\ events[i].entry <= delivered'
                              /\ \A w \in Workers : \A m \in InHand(w)' : events[i].entry <= m
  <2> SUFFICES ASSUME NEW i \in DOMAIN events
               PROVE  /\ events[i].entry <= delivered'
                      /\ \A w \in Workers : \A m \in InHand(w)' : events[i].entry <= m
    BY Zenon
  <2>1. events[i].entry \in Nat /\ events[i].entry <= delivered
    BY <1>4, Zenon DEF HandsInv
  <2>2. \A w \in Workers : \A m \in InHand(w)' : events[i].entry <= m
    BY <1>5, <2>1, Zenon DEF HandsInv
  <2> QED
    BY <1>2, <2>1, <2>2
<1>7. CASE UNCHANGED events
  BY <1>1, <1>6, <1>7, Zenon DEF HandsInv
<1>8. CASE events' # events
  <2>1. PICK ev \in Event :
           /\ events' = Append(events, ev)
           /\ \/ ev.entry = 0
              \/ \E w \in Workers : worker[w].pc = "apply" /\ ev.entry = Current(w)
    BY <1>8, EventSteps, Zenon
  <2>2. /\ DOMAIN events = 1 .. Len(events) /\ DOMAIN events' = 1 .. Len(events) + 1
        /\ \A i \in DOMAIN events : events'[i] = events[i]
        /\ events'[Len(events) + 1] = ev /\ Len(events) \in Nat
    BY <2>1, EventsAppended, Zenon
  <2>3. ASSUME NEW w \in Workers, worker[w].pc = "apply", ev.entry = Current(w)
        PROVE  ev.entry \in Nat /\ ev.entry <= delivered /\ \A m \in InHand(w) : ev.entry <= m
    <3>1. Current(w) \in 1 .. delivered /\ \A m \in worker[w].todo : Current(w) <= m
      BY <2>3, CurrentIs, Zenon
    <3> QED
      BY <1>2, <2>3, <3>1 DEF HandsInv, InHand
  <2>4. ev.entry \in Nat /\ ev.entry <= delivered
        /\ \A w \in Workers : \A m \in InHand(w) : ev.entry <= m
    <3>1. CASE ev.entry = 0
      BY <1>2, <3>1 DEF WorkerType, InHand, Work
    <3> QED
      BY <2>1, <2>3, <3>1, Zenon DEF OneWorker
  <2>5. \A w \in Workers : \A m \in InHand(w)' : ev.entry <= m
    BY <1>5, <2>4, Zenon
  <2>6. \A i \in DOMAIN events' : i \in DOMAIN events \/ events'[i] = ev
    BY <2>2
  <2>7. ev.entry <= delivered'
    BY <1>2, <2>4
  <2>8. \A i \in DOMAIN events' : /\ events'[i].entry <= delivered'
                                 /\ \A w \in Workers : \A m \in InHand(w)' : events'[i].entry <= m
    BY <1>6, <2>2, <2>5, <2>6, <2>7, Zenon
  <2> QED
    BY <1>1, <2>8, Zenon DEF HandsInv
<1> QED
  BY <1>7, <1>8, Zenon

\* And so no event of an older entry comes late.
LEMMA NextEntries ==
  ASSUME Arithmetic, OneWorker, IndInv, HandsInv, EntriesInOrder, [Next]_vars
  PROVE  EntriesInOrder'
<1> USE DEF IndInv, TypeOK
<1>1. CASE UNCHANGED events
  BY <1>1 DEF EntriesInOrder, Wrote
<1>2. CASE events' # events
  <2>1. PICK ev \in Event :
           /\ events' = Append(events, ev)
           /\ \/ ev.entry = 0
              \/ \E w \in Workers : worker[w].pc = "apply" /\ ev.entry = Current(w)
    BY <1>2, EventSteps, Zenon
  <2>2. /\ DOMAIN events = 1 .. Len(events) /\ DOMAIN events' = 1 .. Len(events) + 1
        /\ \A i \in DOMAIN events : events'[i] = events[i]
        /\ events'[Len(events) + 1] = ev /\ Len(events) \in Nat
    BY <2>1, EventsAppended, Zenon
  <2>3. PICK new : new = Len(events) + 1
    BY Zenon
  <2>4. /\ \A i \in DOMAIN events' : i \in DOMAIN events \/ (i = new /\ events'[i] = ev)
        /\ \A i \in DOMAIN events : i \in DOMAIN events' /\ i < new
    BY <2>2, <2>3
  <2> SUFFICES ASSUME NEW j \in DOMAIN events', NEW m \in Nat \ {0},
                      m < events'[j].entry, Wrote(m)'
               PROVE  \E i \in DOMAIN events' : i < j /\ events'[i].entry = m
    BY Zenon DEF EntriesInOrder
  <2>5. Wrote(m) \/ ev.entry = m
    BY <2>2, <2>4, Zenon DEF Wrote
  <2>6. CASE j \in DOMAIN events
    <3>1. m < events[j].entry /\ events[j].entry \in Nat
      BY <2>2, <2>6, EventType, Zenon
    <3>2. ev.entry # m
      <4>1. ASSUME NEW w \in Workers, worker[w].pc = "apply", m = Current(w)
            PROVE  FALSE
        <5>1. m \in InHand(w)
          BY <4>1, CurrentIs, Zenon DEF InHand
        <5>2. events[j].entry <= m
          BY <2>6, <5>1, Zenon DEF HandsInv
        <5> QED
          BY <3>1, <5>2
      <4> QED
        BY <2>1, <4>1, Zenon
    <3>3. PICK i \in DOMAIN events : i < j /\ events[i].entry = m
      BY <2>5, <2>6, <3>1, <3>2, Zenon DEF EntriesInOrder
    <3> QED
      BY <2>2, <2>4, <3>3, Zenon
  <2>7. CASE j = new /\ events'[j] = ev
    <3>1. ev.entry # m
      BY <2>7 DEF Event
    <3>2. PICK i \in DOMAIN events : events[i].entry = m
      BY <2>5, <3>1, Zenon DEF Wrote
    <3> QED
      BY <2>2, <2>4, <2>7, <3>2, Zenon
  <2> QED
    BY <2>4, <2>6, <2>7, Zenon
<1> QED
  BY <1>1, <1>2, Zenon
=============================================================================
