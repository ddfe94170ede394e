------------------------------- MODULE MCExec -------------------------------
(* Instances of Exec for model checking. *)
EXTENDS Exec

CONSTANT other

MCCodes == {Success, other}

AllFaults == {"refused", "client", "daemon"}
=============================================================================
