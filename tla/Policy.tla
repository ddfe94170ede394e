------------------------------- MODULE Policy -------------------------------
(***************************************************************************)
(* The egress policy engine, internal/proxy/policy.go and presets.go: what *)
(* a rule covers, what a policy decides, and how a policy is edited.       *)
(*                                                                         *)
(* A host is the sequence of its labels, so that x.org is <<"x", "org">>.  *)
(* Letter case is left out: both sides of every comparison fold it.  A     *)
(* trailing dot is not, since only one side drops it.                      *)
(***************************************************************************)
EXTENDS Naturals, Sequences

CONSTANTS
  Hosts,     (* host names and literal addresses, as sequences of labels   *)
  Private,   (* the literal addresses that no sandbox may reach            *)
  TcpPorts,  (* ports                                                      *)
  Balanced   (* the patterns that the balanced preset allows               *)

ASSUME PolicyAssumption ==
  /\ Private \subseteq Hosts
  /\ \A host \in Hosts : host \in Seq(STRING)
  /\ TcpPorts \subseteq Nat \ {0}

EveryPort == 0

Target  == [host : Hosts, dot : BOOLEAN, port : TcpPorts]

Pattern == [form : {"any", "sub", "exact"}, host : Hosts, dot : BOOLEAN,
            port : TcpPorts \cup {EveryPort}]

Rule    == [pattern : Pattern, allow : BOOLEAN]

Presets == {"open", "balanced", "locked-down"}

(* The order of a policy's rules decides which rule a verdict quotes, and  *)
(* never the verdict.                                                      *)
Policies == [preset : Presets, rules : SUBSET Rule]

Starting(preset) == [preset |-> preset, rules |-> {}]

Default == Starting("balanced")

(* host is a subdomain of zone, and not zone itself. *)
Below(host, zone) ==
  /\ Len(host) > Len(zone)
  /\ SubSeq(host, Len(host) - Len(zone) + 1, Len(host)) = zone

(* A target's trailing dot is dropped before it is compared, a pattern's   *)
(* is not.                                                                 *)
Matches(pattern, t) ==
  /\ pattern.port \in {EveryPort, t.port}
  /\ \/ pattern.form = "any"
     \/ pattern.form = "sub"   /\ ~pattern.dot /\ Below(t.host, pattern.host)
     \/ pattern.form = "exact" /\ ~pattern.dot /\ t.host = pattern.host

Covered(rules, t, allow) == \E rule \in rules : rule.allow = allow /\ Matches(rule.pattern, t)

(* As Check, with a narrow allow read before a broad deny. *)
CheckAllowFirst(policy, t) ==
  IF t.host \in Private /\ ~t.dot THEN "private"
  ELSE IF Covered(policy.rules, t, TRUE) THEN "allowed"
  ELSE IF Covered(policy.rules, t, FALSE) THEN "denied"
  ELSE IF policy.preset = "open" THEN "open"
  ELSE IF policy.preset = "balanced" /\ \E p \in Balanced : Matches(p, t) THEN "preset"
  ELSE "default"

(* The verdict on t, and what decided it. *)
Check(policy, t) ==
  IF t.host \in Private /\ ~t.dot THEN "private"
  ELSE IF Covered(policy.rules, t, FALSE) THEN "denied"
  ELSE IF Covered(policy.rules, t, TRUE) THEN "allowed"
  ELSE IF policy.preset = "open" THEN "open"
  ELSE IF policy.preset = "balanced" /\ \E p \in Balanced : Matches(p, t) THEN "preset"
  ELSE "default"

Permits(policy, t) == Check(policy, t) \in {"allowed", "open", "preset"}

Without(policy, pattern) ==
  [policy EXCEPT !.rules = {rule \in @ : rule.pattern # pattern}]

(* `allow` and `deny` replace the rule that holds the pattern. *)
WithRule(policy, pattern, allow) ==
  [policy EXCEPT !.rules = {rule \in @ : rule.pattern # pattern}
                             \cup {[pattern |-> pattern, allow |-> allow]}]

(* The pattern the dashboard writes for a decision: its host as it was     *)
(* asked for, on every port.                                               *)
HostOf(t) == [form |-> "exact", host |-> t.host, dot |-> t.dot, port |-> EveryPort]
=============================================================================
