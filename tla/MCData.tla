------------------------------- MODULE MCData -------------------------------
(***************************************************************************)
(* The components that compute on data, each on its own instance and one   *)
(* per behaviour: part names the one that runs, the others stand still in  *)
(* a fixed initial state.                                                  *)
(***************************************************************************)
EXTENDS MCRuleLang, MCJsonDiff, MCChain, MCBackoff

VARIABLE part

vars == <<part, ruleVars, diffVars, chainVars, backoffVars>>

Init ==
  /\ part \in {"rules", "diff", "chain", "backoff"}
  /\ part = "chain" \/ (failMode = "closed" /\ enabled = [c \in Collections |-> FALSE])
  /\ part = "backoff" \/ cfg = CHOOSE c \in Configs : TRUE
  /\ RuleInit /\ DiffInit /\ ChainInit /\ BackoffInit

Rules ==
  /\ part = "rules" /\ RuleNext
  /\ UNCHANGED <<part, diffVars, chainVars, backoffVars>>

Diffs ==
  /\ part = "diff" /\ DiffNext
  /\ UNCHANGED <<part, ruleVars, chainVars, backoffVars>>

Links ==
  /\ part = "chain" /\ ChainNext
  /\ UNCHANGED <<part, ruleVars, diffVars, backoffVars>>

Waits ==
  /\ part = "backoff" /\ BackoffNext
  /\ UNCHANGED <<part, ruleVars, diffVars, chainVars>>

Next == Rules \/ Diffs \/ Links \/ Waits

Spec == Init /\ [][Next]_vars
=============================================================================
