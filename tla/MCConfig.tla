------------------------------ MODULE MCConfig ------------------------------
(***************************************************************************)
(* Small instances of Config: bodies that omit, set and misspell fields.   *)
(***************************************************************************)
EXTENDS Config

NoBody == [f \in Fields |-> Omitted]

Sized    == [NoBody EXCEPT !["snapshot_interval"] = 2, !["retention"] = "good",
                           !["retention.days"] = 1]
Unknown  == [NoBody EXCEPT !["first_event_op"] = "bad"]
Zero     == [NoBody EXCEPT !["max_event_size_bytes"] = 0]
Plugin   == [NoBody EXCEPT !["plugins.fail_mode"] = "bad"]
Negative == [NoBody EXCEPT !["retention"] = "good", !["retention.days"] = -1]

MCBodies       == {Sized, Unknown, Zero, Plugin}
NegativeBodies == {Sized, Negative}
=============================================================================
