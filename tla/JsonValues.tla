----------------------------- MODULE JsonValues -----------------------------
(***************************************************************************)
(* JSON values as records with their type in t, and the error result of    *)
(* the functions that work on them.                                        *)
(***************************************************************************)
Null == [t |-> "null"]

Err == [t |-> "error"]
=============================================================================
