------------------------------- MODULE MCFeed -------------------------------
(***************************************************************************)
(* Small instances of Feed: two sandboxes, each asking for one thing.      *)
(***************************************************************************)
EXTENDS Feed

CONSTANTS d1, d2, n1, n2

MCDecisions == {d1, d2}
MCSandboxes == {n1, n2}
MCSandboxOf == (d1 :> n1) @@ (d2 :> n2)
=============================================================================
