----------------------------- MODULE MCDelivery -----------------------------
(***************************************************************************)
(* Small instances of Delivery.                                            *)
(***************************************************************************)
EXTENDS Delivery, TLC

Open     == [rule |-> 1, cap |-> 0, kind |-> "open"]
OnceOnly == [rule |-> 1, cap |-> 1, kind |-> "open"]
Unsigned == [rule |-> 1, cap |-> 0, kind |-> "unsigned"]
Blocked  == [rule |-> 2, cap |-> 0, kind |-> "blocked"]

OneTrigger   == {Open}
AllTriggers  == {Open, Unsigned, Blocked}
CappedOnly   == {OnceOnly}
UnsignedOnly == {Unsigned}

Symmetry == Permutations(Dispatchers)
=============================================================================
