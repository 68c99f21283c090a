------------------------------ MODULE MCReads -------------------------------
(***************************************************************************)
(* Readers of the store and what follows a stored event, each on its own   *)
(* instance and one per behaviour: part names the one that runs.           *)
(***************************************************************************)
EXTENDS Listing, Catalog, PostStore, TLC

VARIABLE part

vars == <<part, listVars, catalogVars, postVars>>

Init ==
  /\ part \in {"pages", "catalog", "rules"}
  /\ ListingInit /\ CatalogInit /\ PostInit

Pages == part = "pages" /\ ListingNext /\ UNCHANGED <<part, catalogVars, postVars>>

Collect == part = "catalog" /\ CatalogNext /\ UNCHANGED <<part, listVars, postVars>>

AfterStore == part = "rules" /\ PostNext /\ UNCHANGED <<part, listVars, catalogVars>>

Next == Pages \/ Collect \/ AfterStore

Spec == Init /\ [][Next]_vars

-----------------------------------------------------------------------------
MCFilters == {[op |-> "", from |-> 0, to |-> 0], [op |-> "update", from |-> 2, to |-> 2]}

Task(t, kind, id) == [task |-> t, kind |-> kind, eventID |-> id, value |-> t]

\* A keyed state and an unkeyed diff of one entity.
MCEntries == {Task(1, "state", "k1"), Task(2, "diff", "")}

MCRules == << [id |-> "r1", type |-> "webhook"], [id |-> "r2", type |-> "log"] >>

CONSTANTS w1, w2

TwoWorkers == {w1, w2}

Sym == Permutations(TwoWorkers)
=============================================================================
