------------------------------ MODULE MCTunnel ------------------------------
(* Instances of Tunnel for model checking. *)
EXTENDS Tunnel

Forwards(h, s) == [host |-> h, sandbox |-> s]

(* A published port, a sandbox's way out, and ssh's way in. *)
AllRoutes == {<<"relay">>, <<"relay", "proxy">>, <<"ssh">>}

TwoPorts == {<<Forwards(1, 1), Forwards(2, 2)>>}

OnePortTwice == TwoPorts \cup {<<Forwards(1, 1), Forwards(2, 1)>>}

AllFaults == Fault
=============================================================================
