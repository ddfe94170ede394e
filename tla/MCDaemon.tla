------------------------------ MODULE MCDaemon ------------------------------
(* Instances of Daemon for model checking. *)
EXTENDS Daemon, TLC

CONSTANTS d1, d2, d3, c1, c2

NoFaults     == {}
DaemonFaults == {"crash", "refused"}
AllFaults    == {"crash", "refused", "interrupt", "slow"}

(* Process ids and commands are alike; for runs without fairness.          *)
Alike == Permutations(Daemons) \cup Permutations(Clients)
=============================================================================
