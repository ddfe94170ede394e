---------------------------- MODULE MCSandboxes ----------------------------
(* Instances of Sandboxes for model checking. *)
EXTENDS Sandboxes, TLC

CONSTANTS n1, n2, p1, p2, r1, r2

NoFaults   == {}
AllFaults  == {"refused", "lost", "crash", "exit"}

(* Which request slot runs a call is of no consequence. *)
AnySlot == Permutations(Requests)
=============================================================================
