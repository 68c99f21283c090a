---------------------------- MODULE AtLeastOnce ----------------------------
(***************************************************************************)
(* What a queue with acknowledgements promises for the work it accepts: a  *)
(* piece of work is owed from the moment it is accepted, leaves the queue  *)
(* only after a consumer has come to a verdict on it, and does leave it.   *)
(* How often, in which order and by whom it is handled is left open.       *)
(***************************************************************************)
CONSTANT Work                  \* everything that may ever be accepted

VARIABLES owed,                \* accepted, not yet acknowledged
          handled,             \* a consumer came to a verdict
          settled              \* acknowledged

ledger == <<owed, handled, settled>>

LedgerInit == owed = {} /\ handled = {} /\ settled = {}

Accept(m) == /\ m \notin owed \cup settled
             /\ owed' = owed \cup {m}
             /\ UNCHANGED <<handled, settled>>

\* Also after the acknowledgement: a copy may still be in a consumer's hands.
Handle(m) == /\ m \in owed \cup settled
             /\ handled' = handled \cup {m}
             /\ UNCHANGED <<owed, settled>>

SettleOne(m) == /\ m \in owed \cap handled
                /\ owed' = owed \ {m}
                /\ settled' = settled \cup {m}
                /\ UNCHANGED handled

LedgerNext == \E m \in Work : Accept(m) \/ Handle(m) \/ SettleOne(m)

LedgerSpec == LedgerInit /\ [][LedgerNext]_ledger

LedgerSettles == \A m \in Work : m \in owed ~> m \in settled
=============================================================================
