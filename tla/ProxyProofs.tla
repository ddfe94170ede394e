---------------------------- MODULE ProxyProofs ----------------------------
(***************************************************************************)
(* What holds of Proxy for every set of hosts, targets, patterns and       *)
(* editors, and of every preset, however many of them edit at once.        *)
(***************************************************************************)
EXTENDS Proxy, SequenceTheorems, TLAPS

(* An editor has what its operation needs, and what it is about to write   *)
(* is a policy with one rule for each pattern, its own denial among them.  *)
Formed(editor) ==
  /\ editor.op \in {"rule", "key", "drop"} => editor.pattern \in Pattern
  /\ editor.op \in {"preset", "wizard"} => editor.preset \in Presets

Prepared(editor) ==
  editor.pc = "write" =>
    /\ editor.copy \in Policies
    /\ Single(editor.copy)
    /\ editor.op \in {"rule", "key"} /\ ~editor.allow =>
         [pattern |-> editor.pattern, allow |-> FALSE] \in editor.copy.rules

Sound ==
  /\ TypeOK
  /\ OneRulePerPattern
  /\ \A e \in Editors : Formed(editors[e]) /\ Prepared(editors[e])

(* A request yet to be decided has seen what the policy in force allows,   *)
(* and one that was allowed was allowed by such a policy, or by the        *)
(* default for want of one that could be read.                             *)
PermittedOrUnread(r) ==
  \/ requests[r].permitted
  \/ "unreadable" \in Faults /\ Permits(Default, requests[r].target)

Vetted(r) ==
  /\ At(r, "check") /\ Permits(InForce, requests[r].target) => requests[r].permitted
  /\ requests[r].pc \in {"lookup", "dial", "open"} => PermittedOrUnread(r)
  /\ At(r, "open") => requests[r].upstream = "public"

(* With one editor, the policy it read is the policy in force until it     *)
(* writes.                                                                 *)
UpToDate ==
  \A e \in Editors : editors[e].pc = "write" => editors[e].copy \in Outcome(editors[e], file)

(* A check gives one of six reasons, and a permission is a Boolean. *)
LEMMA PermitsType ==
  ASSUME NEW policy, NEW t
  PROVE  Permits(policy, t) \in BOOLEAN
  BY DEF Permits

LEMMA DefaultType == Default \in Policies /\ Single(Default)
  BY DEF Default, Starting, Policies, Presets, Single

LEMMA InForceType ==
  ASSUME file \in Policies \cup {NoPolicy}
  PROVE  InForce \in Policies
  BY DefaultType DEF InForce

(* Edits of policies make policies. *)
LEMMA WithRuleType ==
  ASSUME NEW policy \in Policies, NEW pattern \in Pattern, NEW allow \in BOOLEAN
  PROVE  WithRule(policy, pattern, allow) \in Policies
  <1>1. [pattern |-> pattern, allow |-> allow] \in Rule
    BY DEF Rule
  <1>2. {rule \in policy.rules : rule.pattern # pattern} \subseteq Rule
    BY DEF Policies
  <1> QED
    BY <1>1, <1>2 DEF WithRule, Policies

LEMMA WithoutType ==
  ASSUME NEW policy \in Policies, NEW pattern
  PROVE  Without(policy, pattern) \in Policies
  <1>1. {rule \in policy.rules : rule.pattern # pattern} \subseteq Rule
    BY DEF Policies
  <1> QED
    BY <1>1 DEF Without, Policies

LEMMA StartingType ==
  ASSUME NEW preset \in Presets
  PROVE  Starting(preset) \in Policies /\ Single(Starting(preset))
  BY DEF Starting, Policies, Single

(* What the dashboard writes a rule about is a pattern. *)
LEMMA HostOfType ==
  ASSUME NEW t \in Targets
  PROVE  HostOf(t) \in Pattern
  BY ProxyAssumption DEF HostOf, Pattern, Target

(* The log stays a sequence of decisions. *)
LEMMA RecordType ==
  ASSUME TypeOK, NEW r \in Requests, NEW allowed \in BOOLEAN, Record(r, allowed)
  PROVE  log' \in Seq(Decision)
  <1> DEFINE decision == [target |-> requests[r].target, allowed |-> allowed]
             longer == Append(log, decision)
             from == IF Len(longer) > LogLimit THEN 2 ELSE 1
  <1>1. decision \in Decision
    BY DEF TypeOK, Request, Decision
  <1>2. longer \in Seq(Decision) /\ Len(longer) = Len(log) + 1 /\ Len(log) \in Nat
    BY <1>1 DEF TypeOK
  <1>3. from \in 1 .. Len(longer) + 1
    BY <1>2, ProxyAssumption
  <1>4. SubSeq(longer, from, Len(longer)) \in Seq(Decision)
    <2> HIDE DEF longer, from
    <2> QED BY <1>2, <1>3, SubSeqProperties
  <1> QED
    BY <1>4 DEF Record

(* What is left of a list of addresses is one. *)
LEMMA TailType ==
  ASSUME NEW list \in AddressLists, list # <<>>
  PROVE  Tail(list) \in AddressLists /\ Head(list) \in Addresses
  <1>1. PICK n \in 0 .. MaxAddresses : list \in [1 .. n -> Addresses]
    BY DEF AddressLists
  <1>2. list \in Seq(Addresses) /\ Len(list) = n
    BY <1>1, ProxyAssumption, LenProperties
  <1>3. n > 0
    BY <1>2, EmptySeq, ProxyAssumption
  <1>4. Tail(list) \in [1 .. n - 1 -> Addresses]
    BY <1>2, <1>3, HeadTailProperties, LenProperties
  <1>5. n - 1 \in 0 .. MaxAddresses
    BY <1>3, ProxyAssumption
  <1> QED
    BY <1>2, <1>4, <1>5, HeadTailProperties DEF AddressLists

LEMMA NoAddresses == <<>> \in AddressLists
  BY ProxyAssumption DEF AddressLists

-----------------------------------------------------------------------------
(* Types                                                                   *)

LEMMA QuietType ==
  ASSUME NEW t \in Targets, NEW answer \in {"none", "ok", "forbidden", "badGateway"}
  PROVE  Quiet(t, answer) \in Request
  BY NoAddresses DEF Quiet, Request

LEMMA InitTypes == Init => TypeOK
  <1> SUFFICES ASSUME Init PROVE TypeOK
    OBVIOUS
  <1>1. file \in Policies \cup {NoPolicy} /\ log \in Seq(Decision)
    BY DEF Init
  <1>2. {Quiet(t, "none") : t \in Targets} \subseteq Request
    BY QuietType
  <1>3. requests \in [Requests -> Request]
    BY <1>2 DEF Init
  <1>4. editors \in [Editors -> Editor]
    BY DEF Init, Editor, Resting, Edits
  <1> QED
    BY <1>1, <1>3, <1>4 DEF TypeOK

LEMMA RefuseTypes ==
  ASSUME TypeOK, NEW r \in Requests, NEW answer \in {"forbidden", "badGateway"},
         Refuse(r, answer), UNCHANGED <<file, editors>>
  PROVE  TypeOK'
  <1>1. log' \in Seq(Decision)
    BY RecordType DEF Refuse
  <1>2. Quiet(requests[r].target, answer) \in Request
    BY QuietType DEF TypeOK, Request
  <1> QED
    BY <1>1, <1>2 DEF Refuse, Set, TypeOK

LEMMA SetTypes ==
  ASSUME TypeOK, NEW r \in Requests, NEW request \in Request, Set(r, request),
         log' \in Seq(Decision), UNCHANGED <<file, editors>>
  PROVE  TypeOK'
  BY DEF Set, TypeOK

LEMMA RequestTypes ==
  ASSUME TypeOK, NEW r \in Requests,
         (\E t \in Targets : Ask(r, t)) \/ Decide(r) \/ Lookup(r) \/ Dial(r) \/ Close(r)
  PROVE  TypeOK'
  <1> DEFINE request == requests[r]
  <1>1. request \in Request /\ request.target \in Targets /\ log \in Seq(Decision)
    BY DEF TypeOK, Request
  <1>2. ASSUME NEW t \in Targets, Ask(r, t) PROVE TypeOK'
    <2>1. [Quiet(t, "none") EXCEPT !.pc = "check", !.permitted = Permits(InForce, t)] \in Request
      BY NoAddresses, PermitsType DEF Quiet, Request
    <2> QED
      BY <1>1, <1>2, <2>1, SetTypes DEF Ask
  <1>3. CASE Decide(r)
    <2>1. [request EXCEPT !.pc = "lookup"] \in Request
      BY <1>1 DEF Request
    <2> QED
      BY <1>1, <1>3, <2>1, SetTypes, RefuseTypes DEF Decide
  <1>4. CASE Lookup(r)
    <2>1. \A list \in AddressLists :
            [request EXCEPT !.pc = "dial", !.addresses = list] \in Request
      BY <1>1 DEF Request
    <2> QED
      BY <1>1, <1>4, <2>1, SetTypes, RefuseTypes DEF Lookup
  <1>5. CASE Dial(r)
    <2>1. CASE request.addresses = <<>>
      BY <1>5, <2>1, RefuseTypes DEF Dial
    <2>2. CASE request.addresses # <<>>
      <3>1. Tail(request.addresses) \in AddressLists /\ Head(request.addresses) \in Addresses
        BY <1>1, <2>2, TailType DEF Request
      <3>2. ASSUME NEW failure \in {"blocked", "failed"}, Skip(r, failure) PROVE TypeOK'
        <4>1. [request EXCEPT !.addresses = Tail(@), !.failure = failure] \in Request
          BY <1>1, <3>1 DEF Request
        <4> QED
          BY <1>1, <1>5, <3>2, <4>1, SetTypes DEF Skip, Dial
      <3>3. CASE Connect(r)
        <4>1. [request EXCEPT !.pc = "open", !.addresses = <<>>, !.failure = "none",
                              !.upstream = Head(request.addresses)] \in Request
          BY <1>1, <3>1, NoAddresses DEF Request
        <4>2. log' \in Seq(Decision)
          BY <3>3, RecordType DEF Connect
        <4> QED
          BY <1>5, <3>3, <4>1, <4>2, SetTypes DEF Connect, Dial
      <3> QED
        BY <1>5, <2>2, <3>2, <3>3 DEF Dial
    <2> QED
      BY <2>1, <2>2
  <1>6. CASE Close(r)
    BY <1>1, <1>6, QuietType, SetTypes DEF Close
  <1> QED
    BY <1>2, <1>3, <1>4, <1>5, <1>6

(* Whatever an editor goes on to write is a policy. *)
LEMMA OutcomeType ==
  ASSUME NEW editor \in Editor, NEW read \in Policies \cup {NoPolicy},
         NEW policy \in Outcome(editor, read),
         editor.op \in {"rule", "key", "drop"} => editor.pattern \in Pattern,
         editor.op \in {"preset", "wizard"} => editor.preset \in Presets
  PROVE  policy \in Policies
  <1> DEFINE base == IF read = NoPolicy THEN Default ELSE read
  <1>1. base \in Policies
    BY DefaultType
  <1>2. policy = Edited(editor, base)
    BY DEF Outcome
  <1>3. CASE editor.op \in {"rule", "key"}
    BY <1>1, <1>2, <1>3, WithRuleType DEF Edited, Editor
  <1>4. CASE editor.op = "drop"
    BY <1>1, <1>2, <1>4, WithoutType DEF Edited
  <1>5. CASE editor.op = "preset"
    BY <1>1, <1>2, <1>5 DEF Edited, Policies
  <1>6. CASE editor.op = "wizard"
    BY <1>2, <1>6, StartingType DEF Edited
  <1>7. CASE editor.op \in {"none", "settle"}
    BY <1>2, <1>7, DefaultType DEF Edited
  <1> QED
    BY <1>3, <1>4, <1>5, <1>6, <1>7 DEF Editor, Edits

-----------------------------------------------------------------------------
(* Editors                                                                 *)

LEMMA AskedFormed ==
  ASSUME TypeOK, NEW editor \in Asked
  PROVE  editor \in Editor /\ Formed(editor) /\ Prepared(editor) /\ editor.pc = "read"
  <1>1. {HostOf(log[i].target) : i \in 1 .. Len(log)} \subseteq Pattern
    <2>1. ASSUME NEW i \in 1 .. Len(log) PROVE HostOf(log[i].target) \in Pattern
      <3>1. log[i] \in Decision
        BY ElementOfSeq DEF TypeOK
      <3> QED
        BY <3>1, HostOfType DEF Decision
    <2> QED
      BY <2>1
  <1>2. CASE editor \in Edit({"rule"}, Patterns, BOOLEAN, {"none"})
    BY <1>2, ProxyAssumption DEF Edit, Editor, Edits, Formed, Prepared
  <1>3. CASE editor \in Edit({"key"}, {HostOf(log[i].target) : i \in 1 .. Len(log)}, BOOLEAN,
                             {"none"})
    BY <1>1, <1>3 DEF Edit, Editor, Edits, Formed, Prepared
  <1>4. CASE editor \in Edit({"drop"}, Patterns, {FALSE}, {"none"})
    BY <1>4, ProxyAssumption DEF Edit, Editor, Edits, Formed, Prepared
  <1>5. CASE editor \in Edit({"preset", "wizard"}, {NoPattern}, {FALSE}, Presets)
    BY <1>5 DEF Edit, Editor, Edits, Formed, Prepared
  <1>6. CASE editor \in Edit({"settle"}, {NoPattern}, {FALSE}, {"none"})
    BY <1>6 DEF Edit, Editor, Edits, Formed, Prepared
  <1> QED
    BY <1>2, <1>3, <1>4, <1>5, <1>6 DEF Asked

(* An edit replaces the rule for its pattern, and so keeps one for each. *)
LEMMA EditedSingle ==
  ASSUME NEW editor, NEW policy \in Policies, Single(policy)
  PROVE  Single(Edited(editor, policy))
  <1> DEFINE others == {rule \in policy.rules : rule.pattern # editor.pattern}
  <1>1. CASE editor.op \in {"rule", "key"}
    <2>1. Edited(editor, policy).rules
            = others \cup {[pattern |-> editor.pattern, allow |-> editor.allow]}
      BY <1>1 DEF Edited, WithRule, Policies
    <2> QED
      BY <2>1 DEF Single
  <1>2. CASE editor.op = "drop"
    BY <1>2 DEF Edited, Without, Policies, Single
  <1>3. CASE editor.op = "preset"
    BY <1>3 DEF Edited, Policies, Single
  <1>4. CASE editor.op \notin {"rule", "key", "drop", "preset"}
    BY <1>4, DefaultType DEF Edited, Starting, Single
  <1> QED
    BY <1>1, <1>2, <1>3, <1>4

(* What an editor makes of a sound policy is ready to be written. *)
LEMMA OutcomePrepared ==
  ASSUME NEW editor \in Editor, Formed(editor), NEW read \in Policies \cup {NoPolicy},
         read # NoPolicy => Single(read), NEW policy \in Outcome(editor, read)
  PROVE  /\ [editor EXCEPT !.pc = "write", !.copy = policy] \in Editor
         /\ Formed([editor EXCEPT !.pc = "write", !.copy = policy])
         /\ Prepared([editor EXCEPT !.pc = "write", !.copy = policy])
  <1> DEFINE base == IF read = NoPolicy THEN Default ELSE read
             next == [editor EXCEPT !.pc = "write", !.copy = policy]
  <1>1. policy \in Policies
    BY OutcomeType DEF Formed
  <1>2. base \in Policies /\ Single(base)
    BY DefaultType
  <1>3. policy = Edited(editor, base)
    BY DEF Outcome
  <1>4. Single(policy)
    BY <1>2, <1>3, EditedSingle
  <1>5. ASSUME editor.op \in {"rule", "key"}, ~editor.allow
        PROVE  [pattern |-> editor.pattern, allow |-> FALSE] \in policy.rules
    <2>1. editor.allow = FALSE
      BY <1>5 DEF Editor
    <2> QED
      BY <1>2, <1>3, <1>5, <2>1 DEF Edited, WithRule, Policies
  <1>6. /\ next \in Editor
        /\ next.op = editor.op /\ next.pattern = editor.pattern /\ next.allow = editor.allow
        /\ next.preset = editor.preset /\ next.copy = policy
    BY <1>1 DEF Editor
  <1> HIDE DEF next
  <1> QED
    BY <1>1, <1>4, <1>5, <1>6 DEF Formed, Prepared, next

LEMMA RestingPrepared == Resting \in Editor /\ Formed(Resting) /\ Prepared(Resting)
  BY DEF Resting, Editor, Edits, Formed, Prepared

LEMMA BecomeSound ==
  ASSUME Sound, NEW e \in Editors, NEW editor \in Editor, Formed(editor), Prepared(editor),
         Become(e, editor), UNCHANGED <<file, requests, log>>
  PROVE  Sound'
  <1>1. editors' \in [Editors -> Editor]
    BY DEF Become, Sound, TypeOK
  <1>2. \A other \in Editors : editors'[other] = IF other = e THEN editor ELSE editors[other]
    BY DEF Become, Sound, TypeOK
  <1> QED
    BY <1>1, <1>2 DEF Sound, TypeOK, OneRulePerPattern

LEMMA EditorSound ==
  ASSUME Sound, NEW e \in Editors, Begin(e) \/ Read(e) \/ Write(e) \/ WriteFails(e)
  PROVE  Sound'
  <1>1. editors[e] \in Editor /\ Formed(editors[e]) /\ Prepared(editors[e])
    BY DEF Sound, TypeOK
  <1>2. CASE Begin(e)
    BY <1>2, AskedFormed, BecomeSound DEF Begin, Sound
  <1>3. CASE Read(e)
    <2>1. CASE Become(e, Resting)
      BY <1>3, <2>1, RestingPrepared, BecomeSound DEF Read
    <2>2. ASSUME NEW read \in Readable(e), NEW policy \in Outcome(editors[e], read),
                 Become(e, [editors[e] EXCEPT !.pc = "write", !.copy = policy])
          PROVE  Sound'
      <3>1. read \in Policies \cup {NoPolicy} /\ (read # NoPolicy => Single(read))
        BY DEF Readable, Sound, TypeOK, OneRulePerPattern
      <3> QED
        BY <1>1, <1>3, <2>2, <3>1, OutcomePrepared, BecomeSound DEF Read
    <2> QED
      BY <1>3, <2>1, <2>2 DEF Read
  <1>4. CASE Write(e)
    <2>1. file' \in Policies /\ Single(file')
      BY <1>1, <1>4 DEF Write, Prepared
    <2>2. requests' \in [Requests -> Request]
      <3>1. ASSUME NEW r \in Requests, NEW seen \in BOOLEAN
            PROVE  [requests[r] EXCEPT !.permitted = seen] \in Request
        BY DEF Sound, TypeOK, Request
      <3> DEFINE seen(r) == requests[r].permitted
                   \/ (At(r, "check") /\ Permits(editors[e].copy, requests[r].target))
      <3>2. requests' = [r \in Requests |-> [requests[r] EXCEPT !.permitted = seen(r)]]
        BY <1>4 DEF Write
      <3>3. \A r \in Requests : seen(r) \in BOOLEAN
        OBVIOUS
      <3> HIDE DEF seen
      <3> QED
        BY <3>1, <3>2, <3>3
    <2>3. editors' = [editors EXCEPT ![e] = Resting] /\ log' = log
      BY <1>4 DEF Write, Become
    <2> QED
      BY <2>1, <2>2, <2>3, RestingPrepared DEF Sound, TypeOK, OneRulePerPattern
  <1>5. CASE WriteFails(e)
    BY <1>5, RestingPrepared, BecomeSound DEF WriteFails
  <1> QED
    BY <1>2, <1>3, <1>4, <1>5

LEMMA InitSound == Init => Sound
  BY InitTypes, RestingPrepared DEF Init, Sound, OneRulePerPattern

LEMMA RequestFrame ==
  ASSUME NEW r \in Requests,
         (\E t \in Targets : Ask(r, t)) \/ Decide(r) \/ Lookup(r) \/ Dial(r) \/ Close(r)
  PROVE  UNCHANGED <<file, editors>>
  BY DEF Ask, Decide, Lookup, Dial, Close

LEMMA StepSound == Sound /\ [Next]_vars => Sound'
  <1> SUFFICES ASSUME Sound, [Next]_vars PROVE Sound'
    OBVIOUS
  <1>1. ASSUME NEW r \in Requests,
               (\E t \in Targets : Ask(r, t)) \/ Decide(r) \/ Lookup(r) \/ Dial(r) \/ Close(r)
        PROVE  Sound'
    BY <1>1, RequestTypes, RequestFrame DEF Sound, OneRulePerPattern
  <1>2. ASSUME NEW e \in Editors, Begin(e) \/ Read(e) \/ Write(e) \/ WriteFails(e)
        PROVE  Sound'
    BY <1>2, EditorSound
  <1>3. CASE UNCHANGED vars
    BY <1>3 DEF vars, Sound, TypeOK, OneRulePerPattern
  <1> QED
    BY <1>1, <1>2, <1>3 DEF Next

LEMMA AlwaysSound == Spec => []Sound
  BY InitSound, StepSound, PTL DEF Spec

(* The values of every variable stay in their types, for any number of     *)
(* requests, editors, addresses and rules (internal/proxy, cmd/plbx).      *)
THEOREM TypeCorrect == Spec => []TypeOK
  BY AlwaysSound, PTL DEF Sound

(* The policy file never holds two rules for one pattern, however many     *)
(* editors overlap and whatever fails (policy.go, editRules).              *)
THEOREM OneRuleEach == Spec => []OneRulePerPattern
  BY AlwaysSound, PTL DEF Sound

-----------------------------------------------------------------------------
(* Requests                                                                *)

LEMMA InitVetted == Init => \A r \in Requests : Vetted(r)
  BY DEF Init, Vetted, Quiet, At

(* What the proxy takes for the policy allowed the target since the        *)
(* request came in.                                                        *)
LEMMA FoundVetted ==
  ASSUME NEW r \in Requests, Vetted(r), At(r, "check"), NEW policy \in Found,
         Permits(policy, requests[r].target)
  PROVE  PermittedOrUnread(r)
  BY DEF Found, Vetted, PermittedOrUnread

LEMMA RequestVetted ==
  ASSUME Sound, NEW r \in Requests, NEW other \in Requests, Vetted(other),
         (\E t \in Targets : Ask(r, t)) \/ Decide(r) \/ Lookup(r) \/ Dial(r) \/ Close(r)
  PROVE  Vetted(other)'
  <1> DEFINE request == requests[r]
  <1>1. request \in Request /\ InForce' = InForce
    BY RequestFrame DEF Sound, TypeOK, InForce
  <1>2. CASE other # r
    <2>1. \A next : Set(r, next) => requests'[other] = requests[other]
      BY <1>2 DEF Set, Sound, TypeOK
    <2>2. requests'[other] = requests[other]
      BY <2>1 DEF Ask, Decide, Lookup, Dial, Close, Refuse, Skip, Connect
    <2> QED
      BY <1>1, <2>2 DEF Vetted, PermittedOrUnread, At
  <1>3. ASSUME NEW next, Set(r, next), other = r PROVE requests'[other] = next
    BY <1>3 DEF Set, Sound, TypeOK
  <1>4. ASSUME NEW t \in Targets, Ask(r, t), other = r PROVE Vetted(other)'
    <2> DEFINE next == [Quiet(t, "none") EXCEPT !.pc = "check", !.permitted = Permits(InForce, t)]
    <2>1. requests'[other] = next
      BY <1>3, <1>4 DEF Ask
    <2>2. next.pc = "check" /\ next.target = t /\ next.permitted = Permits(InForce, t)
      BY DEF Quiet
    <2> HIDE DEF next
    <2> QED
      BY <1>1, <2>1, <2>2 DEF Vetted, At
  <1>5. ASSUME NEW answer, Refuse(r, answer), other = r PROVE Vetted(other)'
    BY <1>3, <1>5 DEF Refuse, Vetted, At, Quiet
  <1>6. CASE Decide(r) /\ other = r
    <2>1. ASSUME NEW policy \in Found, Permits(policy, request.target),
                 Set(r, [request EXCEPT !.pc = "lookup"])
          PROVE  Vetted(other)'
      <3>1. PermittedOrUnread(r)
        BY <1>6, <2>1, FoundVetted DEF Decide
      <3>2. requests'[other] = [request EXCEPT !.pc = "lookup"]
        BY <1>3, <1>6, <2>1
      <3> QED
        BY <1>1, <1>6, <3>1, <3>2 DEF Vetted, PermittedOrUnread, At, Request
    <2> QED
      BY <1>5, <1>6, <2>1 DEF Decide
  <1>7. CASE Lookup(r) /\ other = r
    <2>1. ASSUME NEW list \in AddressLists,
                 Set(r, [request EXCEPT !.pc = "dial", !.addresses = list])
          PROVE  Vetted(other)'
      <3>1. requests'[other] = [request EXCEPT !.pc = "dial", !.addresses = list]
        BY <1>3, <1>7, <2>1
      <3> QED
        BY <1>1, <1>7, <3>1 DEF Lookup, Vetted, PermittedOrUnread, At, Request
    <2> QED
      BY <1>5, <1>7, <2>1 DEF Lookup
  <1>8. CASE Dial(r) /\ other = r
    <2>1. PermittedOrUnread(r)
      BY <1>8 DEF Dial, Vetted, At
    <2>2. ASSUME NEW failure \in {"blocked", "failed"}, Skip(r, failure) PROVE Vetted(other)'
      <3>1. requests'[other] = [request EXCEPT !.addresses = Tail(@), !.failure = failure]
        BY <1>3, <1>8, <2>2 DEF Skip
      <3> QED
        BY <1>1, <1>8, <2>1, <3>1 DEF Dial, Vetted, PermittedOrUnread, At, Request
    <2>3. ASSUME Connect(r), Head(request.addresses) # "private", request.addresses # <<>>
          PROVE  Vetted(other)'
      <3>1. requests'[other] = [request EXCEPT !.pc = "open", !.addresses = <<>>,
                                  !.failure = "none", !.upstream = Head(request.addresses)]
        BY <1>3, <1>8, <2>3 DEF Connect
      <3>2. Head(request.addresses) = "public"
        BY <1>1, <2>3, TailType DEF Request, Addresses
      <3> QED
        BY <1>1, <1>8, <2>1, <3>1, <3>2 DEF Vetted, PermittedOrUnread, At, Request
    <2> QED
      BY <1>5, <1>8, <2>2, <2>3 DEF Dial
  <1>9. CASE Close(r) /\ other = r
    BY <1>3, <1>9 DEF Close, Vetted, At, Quiet
  <1> QED
    BY <1>2, <1>4, <1>6, <1>7, <1>8, <1>9

LEMMA EditorVetted ==
  ASSUME Sound, NEW e \in Editors, NEW r \in Requests, Vetted(r),
         Begin(e) \/ Read(e) \/ Write(e) \/ WriteFails(e)
  PROVE  Vetted(r)'
  <1>1. CASE Write(e)
    <2> DEFINE copy == editors[e].copy
    <2>1. copy \in Policies
      BY <1>1 DEF Write, Sound, Prepared
    <2>2. InForce' = copy
      BY <1>1, <2>1, ProxyAssumption DEF Write, InForce
    <2>3. requests'[r] = [requests[r] EXCEPT !.permitted =
                            @ \/ (At(r, "check") /\ Permits(copy, requests[r].target))]
      BY <1>1 DEF Write
    <2>4. requests[r] \in Request
      BY DEF Sound, TypeOK
    <2>5. /\ requests'[r].pc = requests[r].pc /\ requests'[r].target = requests[r].target
          /\ requests'[r].upstream = requests[r].upstream
          /\ requests'[r].permitted =
               (requests[r].permitted \/ (At(r, "check") /\ Permits(copy, requests[r].target)))
      BY <2>3, <2>4 DEF Request
    <2> HIDE DEF copy
    <2> QED
      BY <2>2, <2>5 DEF Vetted, PermittedOrUnread, At
  <1>2. CASE ~Write(e)
    BY <1>2 DEF Begin, Read, WriteFails, Vetted, PermittedOrUnread, At, InForce
  <1> QED
    BY <1>1, <1>2

LEMMA StepVetted ==
  ASSUME Sound, \A r \in Requests : Vetted(r), [Next]_vars
  PROVE  \A r \in Requests : Vetted(r)'
  <1>1. CASE UNCHANGED vars
    BY <1>1 DEF vars, Vetted, PermittedOrUnread, At, InForce
  <1> QED
    BY <1>1, RequestVetted, EditorVetted DEF Next

(* No connection is open but to a public address, for a target that a      *)
(* policy in force since the request came in allowed: what `open` in       *)
(* proxy.go and the policy per request in serve.go promise.                *)
THEOREM OpenIsVetted == Spec => []OpenWasPermitted
  <1> DEFINE AllVetted == \A r \in Requests : Vetted(r)
  <1>1. Init => AllVetted
    BY InitVetted
  <1>2. Sound /\ AllVetted /\ [Next]_vars => AllVetted'
    BY StepVetted
  <1>3. AllVetted => OpenWasPermitted
    BY DEF Vetted, PermittedOrUnread, At, OpenWasPermitted
  <1> HIDE DEF AllVetted
  <1> QED
    BY <1>1, <1>2, <1>3, AlwaysSound, PTL DEF Spec

-----------------------------------------------------------------------------
(* The log                                                                 *)

Logged ==
  IF \E r \in Requests : Concluded(r)
  THEN \E r \in Requests : Concluded(r) /\ Record(r, requests'[r].pc = "open")
  ELSE log' = log

LEMMA RequestLogged ==
  ASSUME TypeOK, NEW r \in Requests,
         (\E t \in Targets : Ask(r, t)) \/ Decide(r) \/ Lookup(r) \/ Dial(r) \/ Close(r)
  PROVE  Logged
  <1> DEFINE request == requests[r]
  <1>1. ASSUME NEW next, Set(r, next)
        PROVE  /\ requests'[r] = next
               /\ \A other \in Requests : other # r => requests'[other] = requests[other]
    BY <1>1 DEF Set, TypeOK
  <1>2. ASSUME NEW next, Set(r, next), log' = log,
               request.pc \in {"idle", "open"} \/ next.pc \in {"check", "lookup", "dial"}
        PROVE  Logged
    <2>1. \A other \in Requests : ~Concluded(other)
      BY <1>1, <1>2 DEF Concluded
    <2> QED
      BY <1>2, <2>1 DEF Logged
  <1>3. ASSUME NEW next, Set(r, next), Record(r, next.pc = "open"),
               request.pc \in {"check", "lookup", "dial"}, next.pc \in {"idle", "open"}
        PROVE  Logged
    BY <1>1, <1>3 DEF Concluded, Logged
  <1>4. ASSUME NEW answer, Refuse(r, answer), request.pc \in {"check", "lookup", "dial"}
        PROVE  Logged
    <2> DEFINE next == Quiet(request.target, answer)
    <2>1. next.pc = "idle" /\ (next.pc = "open") = FALSE
      BY DEF Quiet
    <2> HIDE DEF next
    <2>2. Set(r, next) /\ Record(r, next.pc = "open")
      BY <1>4, <2>1 DEF Refuse, next
    <2> QED
      BY <1>3, <1>4, <2>1, <2>2
  <1>5. request \in Request
    BY DEF TypeOK
  <1>6. ASSUME NEW t \in Targets, Ask(r, t) PROVE Logged
    BY <1>2, <1>6 DEF Ask, At
  <1>7. CASE Decide(r)
    <2>1. [request EXCEPT !.pc = "lookup"].pc = "lookup"
      BY <1>5 DEF Request
    <2> QED
      BY <1>2, <1>4, <1>7, <2>1 DEF Decide, At
  <1>8. CASE Lookup(r)
    <2>1. \A list : [request EXCEPT !.pc = "dial", !.addresses = list].pc = "dial"
      BY <1>5 DEF Request
    <2> QED
      BY <1>2, <1>4, <1>8, <2>1 DEF Lookup, At
  <1>9. CASE Dial(r)
    <2>1. ASSUME NEW failure, Skip(r, failure) PROVE Logged
      <3>1. [request EXCEPT !.addresses = Tail(@), !.failure = failure].pc = "dial"
        BY <1>5, <1>9 DEF Request, Dial, At
      <3> QED
        BY <1>2, <2>1, <3>1 DEF Skip
    <2>2. CASE Connect(r)
      <3> DEFINE next == [request EXCEPT !.pc = "open", !.addresses = <<>>, !.failure = "none",
                                         !.upstream = Head(request.addresses)]
      <3>1. next.pc = "open" /\ (next.pc = "open") = TRUE
        BY <1>5 DEF Request
      <3> HIDE DEF next
      <3>2. Set(r, next) /\ Record(r, next.pc = "open")
        BY <2>2, <3>1 DEF Connect, next
      <3> QED
        BY <1>3, <1>9, <3>1, <3>2 DEF Dial, At
    <2> QED
      BY <1>4, <1>9, <2>1, <2>2 DEF Dial, At
  <1>10. CASE Close(r)
    BY <1>2, <1>10 DEF Close, At
  <1> QED
    BY <1>6, <1>7, <1>8, <1>9, <1>10

LEMMA EditorLogged ==
  ASSUME TypeOK, NEW e \in Editors, Begin(e) \/ Read(e) \/ Write(e) \/ WriteFails(e)
  PROVE  Logged
  <1>1. \A r \in Requests : requests'[r].pc = requests[r].pc
    <2>1. CASE Write(e)
      BY <2>1 DEF Write, TypeOK, Request
    <2> QED
      BY <2>1 DEF Begin, Read, WriteFails
  <1>2. log' = log
    BY DEF Begin, Read, Write, WriteFails
  <1> QED
    BY <1>1, <1>2 DEF Logged, Concluded

(* Every decision reaches the log, exactly once and as it turned out, and  *)
(* nothing else does (proxy.go, open).                                     *)
THEOREM DecisionsAreLogged == Spec => EveryOutcomeRecorded
  <1>1. TypeOK /\ [Next]_vars => Logged
    <2>1. CASE UNCHANGED vars
      BY <2>1 DEF vars, Logged, Concluded
    <2> QED
      BY <2>1, RequestLogged, EditorLogged DEF Next
  <1> QED
    BY <1>1, TypeCorrect, PTL DEF Spec, EveryOutcomeRecorded, Logged

-----------------------------------------------------------------------------
(* What edits do                                                           *)

(* A policy with a rule that denies a target does not permit it, whatever  *)
(* else it holds.                                                          *)
LEMMA DenialsWin ==
  ASSUME NEW policy, NEW rule \in policy.rules, rule.allow = FALSE, NEW t,
         Matches(rule.pattern, t)
  PROVE  ~Permits(policy, t)
  BY DEF Permits, Check, Covered

(* An allow never takes from what a policy permits, and a deny never adds. *)
LEMMA AllowWidens ==
  ASSUME NEW policy \in Policies, NEW pattern \in Pattern, NEW t, Permits(policy, t)
  PROVE  Permits(WithRule(policy, pattern, TRUE), t)
  <1> DEFINE wider == WithRule(policy, pattern, TRUE)
  <1>1. wider.preset = policy.preset
    BY DEF WithRule, Policies
  <1>2. wider.rules = {rule \in policy.rules : rule.pattern # pattern}
                        \cup {[pattern |-> pattern, allow |-> TRUE]}
    BY DEF WithRule, Policies
  <1> HIDE DEF wider
  <1>3. Covered(wider.rules, t, FALSE) => Covered(policy.rules, t, FALSE)
    <2> SUFFICES ASSUME NEW rule \in wider.rules, rule.allow = FALSE, Matches(rule.pattern, t)
                 PROVE  rule \in policy.rules
      BY DEF Covered
    <2>1. rule # [pattern |-> pattern, allow |-> TRUE]
      OBVIOUS
    <2> QED
      BY <1>2, <2>1
  <1>4. Covered(policy.rules, t, TRUE) => Covered(wider.rules, t, TRUE)
    <2> SUFFICES ASSUME NEW rule \in policy.rules, rule.allow = TRUE, Matches(rule.pattern, t)
                 PROVE  rule \in wider.rules
      BY DEF Covered
    <2>1. rule = [pattern |-> rule.pattern, allow |-> rule.allow]
      BY DEF Policies, Rule
    <2> QED
      BY <1>2, <2>1
  <1>5. Permits(wider, t)
    <2> DEFINE no == Covered(policy.rules, t, FALSE)
               yes == Covered(policy.rules, t, TRUE)
    <2> HIDE DEF no, yes
    <2> QED
      BY <1>1, <1>3, <1>4 DEF Permits, Check, no, yes
  <1> QED
    BY <1>5 DEF wider

(* A denial, once written, leaves every target that its pattern covers out *)
(* of reach (policy.go, Check, "which beat allow rules however they were   *)
(* written").                                                              *)
THEOREM DenialHolds == Spec => DenyTakesHold
  <1> DEFINE Holds(e) ==
        Writes(e) /\ editors[e].op \in {"rule", "key"} /\ ~editors[e].allow /\ file' # file
        => \A t \in Targets : Matches(editors[e].pattern, t) => ~Permits(file', t)
  <1>1. ASSUME Sound, NEW e \in Editors, Write(e) PROVE Holds(e)
    <2> SUFFICES ASSUME editors[e].op \in {"rule", "key"}, ~editors[e].allow,
                        NEW t \in Targets, Matches(editors[e].pattern, t)
                 PROVE  ~Permits(file', t)
      OBVIOUS
    <2> DEFINE rule == [pattern |-> editors[e].pattern, allow |-> FALSE]
    <2>1. rule \in file'.rules
      BY <1>1 DEF Sound, Prepared, Write
    <2>2. rule.allow = FALSE /\ rule.pattern = editors[e].pattern
      OBVIOUS
    <2> HIDE DEF rule
    <2> QED
      BY <2>1, <2>2, DenialsWin
  <1>2. ASSUME Sound, NEW e \in Editors, NEW other \in Editors, other # e, Write(other)
        PROVE  Holds(e)
    BY <1>2 DEF Write, Become, Writes, Sound, TypeOK
  <1>3. Sound /\ [Next]_vars => \A e \in Editors : Holds(e)
    <2>1. ASSUME file' # file, [Next]_vars PROVE \E e \in Editors : Write(e)
      BY <2>1, RequestFrame DEF Next, vars, Begin, Read, WriteFails
    <2> QED
      BY <1>1, <1>2, <2>1
  <1> QED
    BY <1>3, AlwaysSound, PTL DEF Spec, DenyTakesHold

-----------------------------------------------------------------------------
(* One editor at a time                                                    *)

SoleEditor == \A e, other \in Editors : e = other

DaemonAnswers == "unavailable" \notin Faults

LEMMA StepUpToDate ==
  ASSUME SoleEditor, DaemonAnswers, Sound, UpToDate, [Next]_vars
  PROVE  UpToDate'
  <1>1. ASSUME NEW r \in Requests,
               (\E t \in Targets : Ask(r, t)) \/ Decide(r) \/ Lookup(r) \/ Dial(r) \/ Close(r)
        PROVE  UpToDate'
    BY <1>1, RequestFrame DEF UpToDate
  <1>2. ASSUME NEW e \in Editors, Begin(e) PROVE UpToDate'
    <2>1. PICK editor \in Asked : editors' = [editors EXCEPT ![e] = editor]
      BY <1>2 DEF Begin, Become
    <2>2. editor.pc = "read"
      BY AskedFormed DEF Sound
    <2> QED
      BY <1>2, <2>1, <2>2, SoleEditor DEF SoleEditor, UpToDate, Sound, TypeOK
  <1>3. ASSUME NEW e \in Editors, Become(e, Resting) PROVE UpToDate'
    BY <1>3 DEF SoleEditor, Become, UpToDate, Resting, Sound, TypeOK
  <1>4. ASSUME NEW e \in Editors, Read(e) PROVE UpToDate'
    <2>1. ASSUME NEW policy \in Outcome(editors[e], file),
                 Become(e, [editors[e] EXCEPT !.pc = "write", !.copy = policy])
          PROVE  UpToDate'
      <3> DEFINE next == [editors[e] EXCEPT !.pc = "write", !.copy = policy]
      <3>1. /\ next.copy = policy /\ next.op = editors[e].op
            /\ next.pattern = editors[e].pattern /\ next.allow = editors[e].allow
            /\ next.preset = editors[e].preset
        BY DEF Sound, TypeOK, Editor
      <3>2. editors'[e] = next /\ file' = file
        BY <1>4, <2>1 DEF Become, Read, Sound, TypeOK
      <3> HIDE DEF next
      <3>3. Outcome(next, file) = Outcome(editors[e], file)
        BY <3>1 DEF Outcome, Edited
      <3>4. next.copy \in Outcome(next, file)
        BY <3>1, <3>3
      <3> QED
        BY <3>2, <3>4 DEF UpToDate, SoleEditor
    <2>2. Readable(e) = {file}
      BY DEF Readable, DaemonAnswers
    <2> QED
      BY <1>3, <1>4, <2>1, <2>2 DEF Read
  <1>5. ASSUME NEW e \in Editors, Write(e) \/ WriteFails(e) PROVE UpToDate'
    BY <1>3, <1>5 DEF Write, WriteFails
  <1>6. CASE UNCHANGED vars
    BY <1>6 DEF vars, UpToDate
  <1> QED
    BY <1>1, <1>2, <1>4, <1>5, <1>6 DEF Next

LEMMA EditKeeps ==
  ASSUME Sound, UpToDate, NEW e \in Editors, Write(e)
  PROVE  Keeps(e)
  <1> DEFINE editor == editors[e]
  <1>1. file' \in Outcome(editor, file)
    BY DEF UpToDate, Write
  <1>2. InForce \in Policies
    BY InForceType DEF Sound, TypeOK
  <1>3. file' = Edited(editor, InForce)
    BY <1>1 DEF Outcome, InForce
  <1>4. CASE editor.op \in {"wizard", "settle"}
    BY <1>1, <1>4 DEF Outcome, Keeps
  <1>5. CASE editor.op \in {"rule", "key"}
    <2>1. file'.preset = InForce.preset
      BY <1>2, <1>3, <1>5 DEF Edited, WithRule, Policies
    <2>2. file'.rules = {rule \in InForce.rules : rule.pattern # editor.pattern}
                          \cup {[pattern |-> editor.pattern, allow |-> editor.allow]}
      BY <1>2, <1>3, <1>5 DEF Edited, WithRule, Policies
    <2> QED
      BY <1>5, <2>1, <2>2 DEF Keeps
  <1>6. CASE editor.op = "drop"
    BY <1>2, <1>3, <1>6 DEF Edited, Without, Policies, Keeps
  <1>7. CASE editor.op = "preset"
    BY <1>2, <1>3, <1>7 DEF Edited, Policies, Keeps
  <1>8. CASE editor.op = "none"
    <2>1. file = NoPolicy
      BY <1>1, <1>8 DEF Outcome
    <2> QED
      BY <1>3, <1>8, <2>1 DEF Edited, InForce, Keeps
  <1> QED
    BY <1>4, <1>5, <1>6, <1>7, <1>8 DEF Sound, TypeOK, Editor, Edits

(* While one command edits at a time and the daemon answers it, an edit    *)
(* changes only what it names, and neither the wizard nor Create replaces  *)
(* a policy that is there.                                                 *)
THEOREM SoleEditorKeepsChoices ==
  ASSUME SoleEditor, DaemonAnswers
  PROVE  Spec => ChoicesSurvive
  <1>1. Init => UpToDate
    BY DEF Init, UpToDate, Resting
  <1>2. Sound /\ UpToDate /\ [Next]_vars => UpToDate'
    BY StepUpToDate
  <1>3. Sound /\ UpToDate /\ [Next]_vars =>
          (file' # file => \E e \in Editors : Writes(e) /\ Keeps(e))
    <2> SUFFICES ASSUME Sound, UpToDate, [Next]_vars, file' # file
                 PROVE  \E e \in Editors : Writes(e) /\ Keeps(e)
      OBVIOUS
    <2>1. PICK e \in Editors : Write(e)
      BY RequestFrame DEF Next, vars, Begin, Read, WriteFails
    <2>2. Writes(e)
      BY <2>1 DEF Write, Writes, Become, Resting, Sound, TypeOK
    <2> QED
      BY <2>1, <2>2, EditKeeps
  <1> QED
    BY <1>1, <1>2, <1>3, AlwaysSound, PTL DEF Spec, ChoicesSurvive
=============================================================================
