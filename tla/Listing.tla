------------------------------ MODULE Listing -------------------------------
(***************************************************************************)
(* Paged listings read while the store changes: an entity's history        *)
(* (server/read, storage/mongo/event_repo), the nodes of a flow            *)
(* (server/activity, service/activity, domain/activity, flow_repo) and the *)
(* dead letters of a rule (server/dlq, dlq_repo).  A client asks for a     *)
(* page, then for the page after its cursor, until the cursor is null.     *)
(***************************************************************************)
EXTENDS Integers, Sequences, SequencesExt, FiniteSets

CONSTANTS MaxItems,      \* bound: items ever stored
          Times,         \* instants, 0 the zero time
          AskedLimits,   \* values of ?limit
          Filters,       \* [op, from, to] of history queries, "" and 0 unset
          MaxLimit       \* maxHistoryLimit

ASSUME ListingAssumption ==
  /\ MaxItems \in Nat /\ MaxLimit \in Nat \ {0}
  /\ Times \subseteq Nat /\ 0 \in Times /\ AskedLimits \subseteq Int

VARIABLES events,        \* [kind, id (the version), rcv, src, op] of one entity and flow
          activities,    \* [kind, id, rcv] of the flow
          letters,       \* [kind, id, failed] of the rule
          items,        \* items ever stored
          query,         \* the listing under way
          step,          \* "idle", "page", "events", "last", "refused"
          cursor,        \* the position of ?cursor, or NoCursor
          partial,       \* activities of a flow, read before its events
          got,           \* the items answered so far
          present        \* the items there were when the listing began, and still are

listVars == <<events, activities, letters, items, query, step, cursor, partial, got, present>>
store == <<events, activities, letters, items>>

NoQuery == [kind |-> "none"]
NoCursor == <<>>

ListingInit ==
  /\ events = {} /\ activities = {} /\ letters = {} /\ items = 0
  /\ query = NoQuery /\ step = "idle" /\ cursor = NoCursor /\ partial = {}
  /\ got = <<>> /\ present = {}

-----------------------------------------------------------------------------
(* The store changes.                                                      *)

\* An event of the entity: the next version, received at any time (the clocks
\* of the API processes differ, and a queued write is stored later).
AppendHistory ==
  /\ \E rcv \in Times \ {0}, src \in Times, op \in {"create", "update"} :
       events' = events \cup {[kind |-> "event", id |-> Cardinality(events) + 1,
                               rcv |-> rcv, src |-> src, op |-> op]}
  /\ UNCHANGED <<activities, letters>>

\* Record and AppendActivity; a known activity_id is refused by its unique index.
Record ==
  /\ \E id \in 1 .. MaxItems, rcv \in Times \ {0} :
       /\ ~\E a \in activities : a.id = id
       /\ activities' = activities \cup {[kind |-> "activity", id |-> id, rcv |-> rcv]}
  /\ UNCHANGED <<events, letters>>

SaveLetter ==
  /\ \E id \in 1 .. MaxItems, failed \in Times \ {0} :
       /\ ~\E l \in letters : l.id = id
       /\ letters' = letters \cup {[kind |-> "letter", id |-> id, failed |-> failed]}
  /\ UNCHANGED <<events, activities>>

\* A dead letter is redelivered.
DeleteLetter ==
  /\ step \notin {"last", "refused"}
  /\ \E l \in letters : letters' = letters \ {l} /\ present' = present \ {l}
  /\ UNCHANGED <<events, activities, items, query, step, cursor, partial, got>>

\* What is stored after the last page is of no interest here.
Change ==
  /\ step \notin {"last", "refused"} /\ items < MaxItems /\ items' = items + 1
  /\ AppendHistory \/ Record \/ SaveLetter
  /\ UNCHANGED <<query, step, cursor, partial, got, present>>

-----------------------------------------------------------------------------
(* Queries.                                                                *)

\* Lexicographic order on pairs.
Before(x, y) == x[1] < y[1] \/ (x[1] = y[1] /\ x[2] < y[2])

\* The order of a listing: history by its sort field and version, flows by
\* received time and node id (activities before events), dead letters newest
\* first.
SortField(q, e) ==
  CASE q.orderBy = "version" -> 0 [] q.orderBy = "ts_source" -> e.src
    [] q.orderBy = "ts_received" -> e.rcv

nodeID(n) == IF n.kind = "activity" THEN n.id ELSE MaxItems + n.id

\* The cursor key of an item; encodeCursor and decodeCursor keep it as it is.
PositionOf(q, x) ==
  CASE q.kind = "history" -> <<SortField(q, x), x.id>>
    [] q.kind = "flow" -> <<x.rcv, nodeID(x)>>
    [] q.kind = "dlq" -> <<x.failed, x.id>>

\* Does x come after y in the listing?
Follows(q, x, y) == IF q.order = "asc" THEN Before(y, x) ELSE Before(x, y)

\* historyFilter: the operation and the window of received times.
Matches(q, e) ==
  /\ q.op \in {"", e.op}
  /\ q.from # 0 => e.rcv >= q.from
  /\ q.to # 0 => e.rcv <= q.to

\* The items a listing is over.
Listed(q) ==
  CASE q.kind = "history" -> {e \in events : Matches(q, e)}
    [] q.kind = "flow" -> activities \cup events
    [] q.kind = "dlq" -> letters
    [] OTHER -> {}

\* cursorPredicate, FlowNode.after, DLQRepo.List: strictly after the cursor.
After(q, x, pos) == pos = NoCursor \/ Follows(q, PositionOf(q, x), pos)

\* The first items of a set after the cursor, at most limit, in order.
PageOf(q, from, pos) ==
  LET rest == SetToSortSeq({x \in from : After(q, x, pos)},
                           LAMBDA x, y : Follows(q, PositionOf(q, y), PositionOf(q, x)))
  IN  IF Len(rest) > q.limit THEN SubSeq(rest, 1, q.limit) ELSE rest

-----------------------------------------------------------------------------
(* The handlers.                                                           *)

Capped(n) == IF n > MaxLimit THEN MaxLimit ELSE n

\* parseHistoryQuery, parseDLQQuery and the flow handler: a limit that is not
\* positive is refused, a large one is cut.
Start ==
  /\ step = "idle"
  /\ \E n \in AskedLimits, kind \in {"history", "flow", "dlq"},
        orderBy \in {"version", "ts_source", "ts_received"}, order \in {"asc", "desc"},
        f \in Filters :
       LET q == [kind |-> kind, limit |-> Capped(n),
                 orderBy |-> orderBy, order |-> order, op |-> f.op, from |-> f.from, to |-> f.to]
       IN  /\ kind = "flow" => order = "asc"
           /\ kind = "dlq" => order = "desc"
           /\ kind # "history" => orderBy = "version" /\ f.op = "" /\ f.from = 0 /\ f.to = 0
           /\ query' = q /\ present' = Listed(q)
           /\ step' = IF n <= 0 THEN "refused" ELSE "page"
  /\ UNCHANGED <<store, cursor, partial, got>>

\* A history or dead letter page that is full may have a successor.
Full(page, limit) == Len(page) = limit

\* The answer: the items, and the cursor of the last one if there may be more.
Answer(page, more) ==
  /\ got' = got \o page /\ partial' = {}
  /\ IF more THEN cursor' = PositionOf(query, page[Len(page)]) /\ step' = "page"
     ELSE cursor' = NoCursor /\ step' = "last"
  /\ UNCHANGED <<store, query, present>>

\* history and list: one query of the database.
Page ==
  LET page == PageOf(query, Listed(query), cursor)
  IN  /\ step = "page" /\ query.kind \in {"history", "dlq"}
      /\ Answer(page, Full(page, query.limit))

\* Flow: the activities, then the events, then the merge.
FlowActivities ==
  /\ step = "page" /\ query.kind = "flow"
  /\ partial' = activities /\ step' = "events"
  /\ UNCHANGED <<store, query, cursor, got, present>>

\* Faulty: the events alone decide whether there is more.
AssembleFlowHasty ==
  LET page == PageOf(query, partial \cup events, cursor)
      left == {n \in events : After(query, n, cursor)}
  IN  step = "events" /\ Answer(page, Cardinality(left) > query.limit)

\* AssembleFlow: there is more when nodes were cut off.
AssembleFlow ==
  LET page == PageOf(query, partial \cup events, cursor)
      left == {n \in partial \cup events : After(query, n, cursor)}
  IN  step = "events" /\ Answer(page, Cardinality(left) > query.limit)

ListingDone == step \in {"last", "refused"} /\ UNCHANGED listVars

Read == Page \/ FlowActivities \/ AssembleFlow

ListingNext == Change \/ DeleteLetter \/ Start \/ Read \/ ListingDone

ListingSpec == ListingInit /\ [][ListingNext]_listVars

-----------------------------------------------------------------------------
(* Properties.                                                             *)

\* "so equal timestamps do not drop or duplicate rows across pages": across all
\* its pages a listing is in strict order, whatever is stored meanwhile; so it
\* holds nothing twice.
InOrderAcrossPages ==
  \A i \in 1 .. Len(got) - 1 :
    Follows(query, PositionOf(query, got[i + 1]), PositionOf(query, got[i]))

\* "When next_cursor is null, you have reached the last page": then every item
\* that was there when the listing began, and still is, has been answered.
NothingMissed == step = "last" => present \subseteq ToSet(got)

\* Read page by page while the store changes, a listing is the one a single
\* query would give: in order, nothing twice, nothing missed.
PagesAreOneListing == InOrderAcrossPages /\ NothingMissed
=============================================================================
