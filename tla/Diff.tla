-------------------------------- MODULE Diff --------------------------------
(***************************************************************************)
(* Structural diffs over flat JSON objects (package internal/diff).        *)
(*                                                                         *)
(* An object is a function from the fields it has to their values.  A list *)
(* of changes, one per path, is a function from the touched fields to the  *)
(* new value, or to Removed.  "add" and "change" store New in the same     *)
(* branch of applyStep, so one entry stands for both.                      *)
(***************************************************************************)
CONSTANTS Fields,     \* top-level object keys
          Values,     \* JSON values of a field
          Removed     \* marks a field dropped by a change list

ASSUME RemovedIsNoValue == Removed \notin Values

Objects == UNION {[D -> Values] : D \in SUBSET Fields}

ChangeLists == UNION {[D -> Values \cup {Removed}] : D \in SUBSET Fields}

Empty == [f \in {} |-> f]

\* Diff, diffValue and diffMap: fields of the union that are not equal on both
\* sides; a field missing in b becomes a removal.
Diff(a, b) ==
  [f \in {g \in DOMAIN a \cup DOMAIN b :
            ~(g \in DOMAIN a /\ g \in DOMAIN b /\ a[g] = b[g])}
     |-> IF f \in DOMAIN b THEN b[f] ELSE Removed]

\* The only error applyStep has on a flat object: removing an absent field.
Applies(s, ch) ==
  \A f \in DOMAIN ch : ch[f] = Removed => f \in DOMAIN s

\* Apply and the segKey case of applyStep.
Apply(s, ch) ==
  [f \in {g \in DOMAIN s \cup DOMAIN ch : g \in DOMAIN ch => ch[g] # Removed}
     |-> IF f \in DOMAIN ch THEN ch[f] ELSE s[f]]

=============================================================================
