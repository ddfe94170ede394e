-------------------------------- MODULE Proxy --------------------------------
(***************************************************************************)
(* Egress: the proxy deciding what sandboxes ask for (internal/proxy), and *)
(* everything that edits the policy it decides by (`plbx policy`, the      *)
(* first-run wizard, the dashboard's allow and deny, and Create).          *)
(*                                                                         *)
(* The policy is one file.  The proxy reads it anew for every request;     *)
(* whoever edits it reads all of it, changes a copy and writes the copy    *)
(* back, in two calls with nothing held in between.                        *)
(***************************************************************************)
EXTENDS Policy

CONSTANTS
  Requests,      (* connections a sandbox may have in progress             *)
  Targets,       (* what sandboxes ask for                                 *)
  Editors,       (* commands that may edit the policy at once              *)
  Patterns,      (* what users write rules about                           *)
  Faults,        (* what may go wrong, see Fault                           *)
  MaxAddresses,  (* how many addresses a name may have                     *)
  LogLimit,      (* how many decisions the log keeps                       *)
  NoPolicy,      (* no policy file                                         *)
  NoPattern      (* the pattern of an edit that is not about one           *)

(* "unreadable":  the store cannot read the policy file.                   *)
(* "refused":     a call that writes it fails.                             *)
(* "unavailable": the daemon does not answer a client's call, which gRPC   *)
(*                reports with the code that stands for ErrNoPolicy.       *)
Fault == {"unreadable", "refused", "unavailable"}

ASSUME ProxyAssumption ==
  /\ Targets \subseteq Target
  /\ Patterns \subseteq Pattern
  /\ Faults \subseteq Fault
  /\ MaxAddresses \in Nat
  /\ LogLimit \in Nat \ {0}
  /\ NoPolicy \notin Policies
  /\ NoPattern \notin Pattern

VARIABLES
  file,      (* the policy file                                            *)
  requests,  (* what each connection has come to                           *)
  log,       (* the latest decisions recorded                              *)
  editors    (* the commands that edit the policy                          *)

vars == <<file, requests, log, editors>>

-----------------------------------------------------------------------------
Addresses == {"private", "public"}

AddressLists == UNION {[1 .. n -> Addresses] : n \in 0 .. MaxAddresses}

(* permitted: at some moment between the request coming in and its being   *)
(* decided, the policy in force allowed its target.  Only the properties   *)
(* read it.                                                                *)
Request ==
  [pc        : {"idle", "check", "lookup", "dial", "open"},
   target    : Targets,
   addresses : AddressLists,
   failure   : {"none", "blocked", "failed"},
   upstream  : Addresses \cup {"none"},
   permitted : BOOLEAN,
   answer    : {"none", "ok", "forbidden", "badGateway"}]

Decision == [target : Targets, allowed : BOOLEAN]

Edits == {"none", "rule", "key", "drop", "preset", "wizard", "settle"}

Editor ==
  [pc      : {"idle", "read", "write"},
   op      : Edits,
   pattern : Pattern \cup {NoPattern},
   allow   : BOOLEAN,
   preset  : Presets \cup {"none"},
   copy    : Policies \cup {NoPolicy}]

Resting == [pc |-> "idle", op |-> "none", pattern |-> NoPattern, allow |-> FALSE,
            preset |-> "none", copy |-> NoPolicy]

Quiet(t, answer) ==
  [pc |-> "idle", target |-> t, addresses |-> <<>>, failure |-> "none",
   upstream |-> "none", permitted |-> FALSE, answer |-> answer]

TypeOK ==
  /\ file \in Policies \cup {NoPolicy}
  /\ requests \in [Requests -> Request]
  /\ log \in Seq(Decision)
  /\ editors \in [Editors -> Editor]

Init ==
  /\ file = NoPolicy
  /\ requests \in [Requests -> {Quiet(t, "none") : t \in Targets}]
  /\ log = <<>>
  /\ editors = [e \in Editors |-> Resting]

(* The policy that applies: the default until one has been written. *)
InForce == IF file = NoPolicy THEN Default ELSE file

At(r, pc) == requests[r].pc = pc

-----------------------------------------------------------------------------
(* A sandbox's request. *)

Set(r, request) == requests' = [requests EXCEPT ![r] = request]

(* The log keeps the tail of what was recorded. *)
Record(r, allowed) ==
  LET longer == Append(log, [target |-> requests[r].target, allowed |-> allowed])
  IN  log' = SubSeq(longer, IF Len(longer) > LogLimit THEN 2 ELSE 1, Len(longer))

(* The request was refused or failed, which the log shows as not allowed. *)
Refuse(r, answer) ==
  /\ Record(r, FALSE)
  /\ Set(r, Quiet(requests[r].target, answer))

Ask(r, t) ==
  /\ At(r, "idle")
  /\ Set(r, [Quiet(t, "none") EXCEPT !.pc = "check", !.permitted = Permits(InForce, t)])
  /\ UNCHANGED <<file, log, editors>>

(* As Found, with everything allowed while the policy cannot be read. *)
FoundOpen == {InForce} \cup {policy \in {Starting("open")} : "unreadable" \in Faults}

(* What the proxy finds when it asks for the policy: the default stands in *)
(* for one that it cannot read.                                            *)
Found == {InForce} \cup {policy \in {Default} : "unreadable" \in Faults}

Decide(r) ==
  /\ At(r, "check")
  /\ \E policy \in Found :
       \/ /\ Permits(policy, requests[r].target)
          /\ Set(r, [requests[r] EXCEPT !.pc = "lookup"])
          /\ UNCHANGED log
       \/ ~Permits(policy, requests[r].target) /\ Refuse(r, "forbidden")
  /\ UNCHANGED <<file, editors>>

(* As Lookup, keeping a name that cannot be resolved out of the log. *)
LookupUnlogged(r) ==
  /\ At(r, "lookup")
  /\ \/ \E list \in AddressLists :
          Set(r, [requests[r] EXCEPT !.pc = "dial", !.addresses = list])
     \/ Set(r, Quiet(requests[r].target, "badGateway"))
  /\ UNCHANGED <<file, log, editors>>

Lookup(r) ==
  /\ At(r, "lookup")
  /\ \/ \E list \in AddressLists :
          /\ Set(r, [requests[r] EXCEPT !.pc = "dial", !.addresses = list])
          /\ UNCHANGED log
     \/ Refuse(r, "badGateway")
  /\ UNCHANGED <<file, editors>>

(* An address that is private, or does not answer, gives way to the next.  *)
Skip(r, failure) ==
  /\ Set(r, [requests[r] EXCEPT !.addresses = Tail(@), !.failure = failure])
  /\ UNCHANGED log

Connect(r) ==
  /\ Record(r, TRUE)
  /\ Set(r, [requests[r] EXCEPT !.pc = "open", !.addresses = <<>>, !.failure = "none",
                                !.upstream = Head(requests[r].addresses)])

(* The verdict that `open` gives up with says that the policy refused, even *)
(* when the policy had allowed the target and no address answered.         *)
Dial(r) ==
  /\ At(r, "dial")
  /\ IF requests[r].addresses = <<>> THEN Refuse(r, "forbidden")
     ELSE IF Head(requests[r].addresses) = "private" THEN Skip(r, "blocked")
     ELSE Connect(r) \/ Skip(r, "failed")
  /\ UNCHANGED <<file, editors>>

(* A tunnel ends, or a plain request is answered by the upstream or not.   *)
Close(r) ==
  /\ At(r, "open")
  /\ \E answer \in {"ok", "badGateway"} : Set(r, Quiet(requests[r].target, answer))
  /\ UNCHANGED <<file, log, editors>>

-----------------------------------------------------------------------------
(* A command that edits the policy. *)

(* The edits a user may ask for, and the one that Create makes. *)
Edit(ops, patterns, verdicts, presets) ==
  [pc : {"read"}, op : ops, pattern : patterns, allow : verdicts, preset : presets,
   copy : {NoPolicy}]

Asked ==
  UNION {Edit({"rule"}, Patterns, BOOLEAN, {"none"}),
         Edit({"key"}, {HostOf(log[i].target) : i \in 1 .. Len(log)}, BOOLEAN, {"none"}),
         Edit({"drop"}, Patterns, {FALSE}, {"none"}),
         Edit({"preset", "wizard"}, {NoPattern}, {FALSE}, Presets),
         Edit({"settle"}, {NoPattern}, {FALSE}, {"none"})}

Become(e, editor) == editors' = [editors EXCEPT ![e] = editor]

Begin(e) ==
  /\ editors[e].pc = "idle"
  /\ \E editor \in Asked : Become(e, editor)
  /\ UNCHANGED <<file, requests, log>>

(* As Edited, with a preset that starts over. *)
EditedAfresh(editor, policy) ==
  CASE editor.op \in {"rule", "key"}      -> WithRule(policy, editor.pattern, editor.allow)
    [] editor.op = "drop"                 -> Without(policy, editor.pattern)
    [] editor.op \in {"preset", "wizard"} -> Starting(editor.preset)
    [] OTHER                              -> Default

(* The policy an editor makes of the one it read. *)
Edited(editor, policy) ==
  CASE editor.op \in {"rule", "key"} -> WithRule(policy, editor.pattern, editor.allow)
    [] editor.op = "drop"            -> Without(policy, editor.pattern)
    [] editor.op = "preset"          -> [policy EXCEPT !.preset = editor.preset]
    [] editor.op = "wizard"          -> Starting(editor.preset)
    [] OTHER                         -> Default

(* What an editor's reading leads it to write: nothing, or one policy.     *)
(* Rules are edited over the default when there is no policy, except from  *)
(* the dashboard; the wizard and Create write only when there is none.     *)
Outcome(editor, read) ==
  LET policy == IF read = NoPolicy THEN Default ELSE read
      goesOn == CASE editor.op \in {"rule", "preset"} -> TRUE
                  [] editor.op = "drop" -> \E rule \in policy.rules : rule.pattern = editor.pattern
                  [] editor.op = "key"  -> read # NoPolicy
                  [] OTHER              -> read = NoPolicy
  IN  IF goesOn THEN {Edited(editor, policy)} ELSE {}

(* Create settles the policy inside the daemon; every other editor is a    *)
(* client, to whom a daemon that does not answer reads as no policy.       *)
Readable(e) ==
  {file} \cup {policy \in {NoPolicy} : "unavailable" \in Faults /\ editors[e].op # "settle"}

Read(e) ==
  /\ editors[e].pc = "read"
  /\ \/ \E read \in Readable(e) :
          \/ \E policy \in Outcome(editors[e], read) :
               Become(e, [editors[e] EXCEPT !.pc = "write", !.copy = policy])
          \/ Outcome(editors[e], read) = {} /\ Become(e, Resting)
     \/ "unreadable" \in Faults /\ Become(e, Resting)
  /\ UNCHANGED <<file, requests, log>>

Write(e) ==
  /\ editors[e].pc = "write"
  /\ file' = editors[e].copy
  /\ requests' = [r \in Requests |->
        [requests[r] EXCEPT !.permitted = @ \/ (At(r, "check")
                                                  /\ Permits(editors[e].copy, requests[r].target))]]
  /\ Become(e, Resting)
  /\ UNCHANGED log

WriteFails(e) ==
  /\ editors[e].pc = "write"
  /\ \/ "refused" \in Faults
     \/ "unavailable" \in Faults /\ editors[e].op # "settle"
  /\ Become(e, Resting)
  /\ UNCHANGED <<file, requests, log>>

-----------------------------------------------------------------------------
Next ==
  \/ \E r \in Requests :
       (\E t \in Targets : Ask(r, t)) \/ Decide(r) \/ Lookup(r) \/ Dial(r) \/ Close(r)
  \/ \E e \in Editors : Begin(e) \/ Read(e) \/ Write(e) \/ WriteFails(e)

Spec == Init /\ [][Next]_vars

-----------------------------------------------------------------------------
(* The upstream of an open connection is never a private address, and a    *)
(* moment came, after the request did, when the policy in force allowed    *)
(* its target: a denial already written is not undone by what the proxy    *)
(* knew before (proxy.go, open; serve.go, the policy per request).  A      *)
(* policy that cannot be read leaves the default to decide.                *)
OpenWasPermitted ==
  \A r \in Requests : At(r, "open") =>
    /\ requests[r].upstream = "public"
    /\ \/ requests[r].permitted
       \/ "unreadable" \in Faults /\ Permits(Default, requests[r].target)

(* The log shows each request that was decided once, as allowed exactly if *)
(* it was connected, and nothing else reaches the log (proxy.go, open).    *)
Concluded(r) ==
  /\ requests[r].pc \in {"check", "lookup", "dial"}
  /\ requests'[r].pc \in {"idle", "open"}

EveryOutcomeRecorded ==
  [][IF \E r \in Requests : Concluded(r)
     THEN \E r \in Requests : Concluded(r) /\ Record(r, requests'[r].pc = "open")
     ELSE log' = log]_vars

(* A policy never holds an allow and a deny for one pattern: the later     *)
(* word replaced the earlier one (policy.go, editRules; keys.go,           *)
(* ruleForSelected).                                                       *)
Single(policy) ==
  \A one, other \in policy.rules : one.pattern = other.pattern => one = other

OneRulePerPattern == file # NoPolicy => Single(file)

(* What a write may do to the policy: an editor changes the rule for the   *)
(* pattern it was given, or the preset it was given, and leaves every      *)
(* other rule as it was; the wizard and Create only write the first policy *)
(* (policy.go, "the rules stay: they are what was added by hand";          *)
(* wizard.go, ensurePolicy; direct.go, settlePolicy).                      *)
Keeps(e) ==
  LET editor == editors[e]
  IN  IF editor.op \in {"wizard", "settle"} THEN file = NoPolicy
      ELSE /\ editor.op # "preset" => file'.preset = InForce.preset
           /\ \A rule \in Rule : rule.pattern # editor.pattern =>
                (rule \in file'.rules <=> rule \in InForce.rules)

Writes(e) == editors[e].pc = "write" /\ editors'[e].pc = "idle"

ChoicesSurvive == [][file' # file => \E e \in Editors : Writes(e) /\ Keeps(e)]_vars

(* A target that a user denies is out of reach as soon as that is written, *)
(* whatever allows it: a narrower allow, another rule or the preset        *)
(* (policy.go, Check: "a denial anyone bothered to express should not be   *)
(* undone").  Not so for a target asked for with a trailing dot and denied *)
(* from the dashboard: the rule has the dot, and covers nothing.           *)
DenyTakesHold ==
  [][\A e \in Editors :
       Writes(e) /\ editors[e].op \in {"rule", "key"} /\ ~editors[e].allow /\ file' # file
       => \A t \in Targets : Matches(editors[e].pattern, t) => ~Permits(file', t)]_vars
=============================================================================
