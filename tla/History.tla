------------------------------ MODULE History -------------------------------
(***************************************************************************)
(* What the event store promises its readers: per entity a sequence of     *)
(* entries that only ever grows at its end, one entry at a time, and in    *)
(* which an event_id occurs once over all entities.                        *)
(***************************************************************************)
EXTENDS Naturals, Sequences

CONSTANTS Entities, NoKey

VARIABLE log     \* log[e][v] is the entry of version v

Init == log = [e \in Entities |-> <<>>]

Fresh(key) ==
  key # NoKey => \A e \in Entities : \A v \in 1 .. Len(log[e]) : log[e][v].key # key

\* Entity e gets one more entry; nothing else changes.
Grow(e) ==
  /\ Len(log'[e]) = Len(log[e]) + 1
  /\ LET entry == log'[e][Len(log'[e])]
     IN  /\ Fresh(entry.key)
         /\ log' = [log EXCEPT ![e] = Append(@, entry)]

Next == \E e \in Entities : Grow(e)

Spec == Init /\ [][Next]_log

=============================================================================
