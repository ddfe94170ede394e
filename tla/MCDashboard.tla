---------------------------- MODULE MCDashboard ----------------------------
(***************************************************************************)
(* Small instances of Dashboard: two sandboxes, listed by name.            *)
(***************************************************************************)
EXTENDS Dashboard, TLC

CONSTANTS n1, n2

MCNames == {n1, n2}
MCOrder == <<n1, n2>>

(* Nothing tells the slots of commands apart. *)
MCSlots == Permutations(Calls)
=============================================================================
