------------------------------ MODULE Catalogue ------------------------------
(***************************************************************************)
(* What the sandbox service promises about the two things its users see of *)
(* a sandbox from outside: the set of ports its record asks for, and the   *)
(* host ports actually held on its behalf.                                 *)
(*                                                                         *)
(* A sandbox holds host ports only while it is registered, only those its  *)
(* record names, and never one another sandbox holds; and what the record  *)
(* names changes only when somebody publishes.                             *)
(***************************************************************************)

CONSTANTS Names, Ports, Unknown

VARIABLES
  wanted,   (* the ports a registered sandbox's record names, or Unknown    *)
  held      (* the host ports held for it                                   *)

catalogueVars == <<wanted, held>>

Init ==
  /\ wanted = [n \in Names |-> Unknown]
  /\ held   = [n \in Names |-> {}]

Register(n) ==
  /\ wanted[n] = Unknown
  /\ wanted' = [wanted EXCEPT ![n] = {}]
  /\ UNCHANGED held

Publish(n, ports) ==
  /\ wanted[n] # Unknown
  /\ wanted' = [wanted EXCEPT ![n] = ports]
  /\ UNCHANGED held

Hold(n) ==
  /\ wanted[n] # Unknown
  /\ \A m \in Names \ {n} : held[m] \cap wanted[n] = {}
  /\ held' = [held EXCEPT ![n] = wanted[n]]
  /\ UNCHANGED wanted

Release(n) ==
  /\ held' = [held EXCEPT ![n] = {}]
  /\ UNCHANGED wanted

Forget(n) ==
  /\ held[n] = {}
  /\ wanted' = [wanted EXCEPT ![n] = Unknown]
  /\ UNCHANGED held

Next ==
  \E n \in Names :
    \/ Register(n)
    \/ \E ports \in SUBSET Ports : Publish(n, ports)
    \/ Hold(n)
    \/ Release(n)
    \/ Forget(n)

Spec == Init /\ [][Next]_catalogueVars
=============================================================================
