------------------------------ MODULE MCProxy -------------------------------
(***************************************************************************)
(* Small instances of Proxy.                                               *)
(***************************************************************************)
EXTENDS Proxy

(* A name the balanced preset allows, one below it, one it says nothing    *)
(* of, and a private address.                                              *)
MCApex    == <<"repo", "org">>
MCSub     == <<"dl", "repo", "org">>
MCOther   == <<"news", "org">>
MCLiteral == <<"10/8">>

MCHosts    == {MCApex, MCSub, MCOther, MCLiteral}
MCPrivate  == {MCLiteral}
MCTcpPorts == {80, 443}

MCEntry(form, host, dot, port) == [form |-> form, host |-> host, dot |-> dot, port |-> port]

(* The apex and the wildcard, both listed as the preset does. *)
MCBalanced ==
  {MCEntry("exact", MCApex, FALSE, EveryPort), MCEntry("sub", MCApex, FALSE, EveryPort)}

MCAsk(host, dot, port) == [host |-> host, dot |-> dot, port |-> port]

(* One that the default allows, by a name that ends in a dot, one that only *)
(* a user's word or another preset allows, and one nothing may allow.      *)
MCTargets ==
  {MCAsk(MCSub, TRUE, 80), MCAsk(MCOther, FALSE, 443), MCAsk(MCLiteral, FALSE, 80)}

(* Everything on one port: what only a user's word allows, among others.   *)
MCPatterns == {MCEntry("any", MCApex, FALSE, 443)}
=============================================================================
