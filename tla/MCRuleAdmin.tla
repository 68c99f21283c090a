---------------------------- MODULE MCRuleAdmin -----------------------------
(***************************************************************************)
(* Small instances of RuleAdmin.                                           *)
(***************************************************************************)
EXTENDS RuleAdmin, TLC

=============================================================================
