----------------------------- MODULE MCCommands -----------------------------
(* Instances of Commands for model checking. *)
EXTENDS Commands, FiniteSetsExt, SequencesExt, TLC

CONSTANTS c1, c2, n1, n2, n3, t1

MCOrder == <<n1, n2, n3>>

(* The directories /a and /b. *)
A == Directory(<<"a">>)

B == Directory(<<"b">>)

MCPaths == {A, B}

(* n3 is what a sandbox gets for a --name only. *)
MCDirName == [d \in Paths |-> IF d = B THEN n2 ELSE n1]

MCWorkspace == [d \in Paths |-> ParseWorkspace(d, d).host]

Port(h, s) == [host |-> h, sandbox |-> s, proto |-> "", bind |-> ""]

MCStores ==
  {n1 :> b1 @@ n2 :> b2 @@ n3 :> b3 :
     b1 \in {Gone, Box(A, "running", <<Port(1, 1)>>)},
     b2 \in {Gone, Box(B, "idle", <<>>)},
     b3 \in {Gone, Box(A, "idle", <<Port(2, 2)>>)}}

By(names) == EachOf(ByName, names)

Here == <<ByPath(A)>>

Plain(kind, refs) == Request(kind, A, refs, NoName, <<>>, <<>>, FALSE)

Ports == {Request("ports", A, By(<<n1>>), NoName, <<Port(2, 1)>>, <<>>, FALSE),
          Request("ports", A, Here, NoName, <<Port(1, 2)>>, <<2>>, FALSE),
          Plain("ports", Here)}

Others ==
  {Plain("start", By(<<n1, n3>>)), Plain("start", Here),
   Plain("stop", By(<<n2, n1>>)), Plain("stop", Here),
   Plain("rm", By(<<n1, n2>>)), Plain("rm", <<>>),
   Request("rm", A, By(<<n2>>), NoName, <<>>, <<>>, TRUE),
   Plain("ls", <<>>), Plain("inspect", Here),
   Plain("create", <<>>),
   Plain("run", Here),
   Request("run", A, By(<<n3>>), n3, <<Port(1, 1)>>, <<>>, FALSE),
   Plain("exec", By(<<n1>>)), Plain("forward", By(<<n1>>)), Plain("cp", By(<<n2>>))}

(* One command that changes ports at a time; which process it is, is of no *)
(* consequence.                                                            *)
MCRuns == {c1 :> r @@ c2 :> s : r \in Ports \cup Others, s \in Others}

AllFaults == Fault

-----------------------------------------------------------------------------
(* Arguments and messages, over bounded inputs                             *)

Bases == BoundedSeq(Character, MaxName + 2)

(* Every directory name gives a valid name, and a valid one is kept        *)
(* (validate.go:22-23): no sandbox fails for what its directory is called. *)
NamesMade ==
  \A base \in Bases :
    ValidName(SandboxName(base)) /\ (ValidName(base) => SandboxName(base) = base)

PortArgs ==
  [bare : BOOLEAN, host : {0, 1, MaxPort, MaxPort + 1}, sandbox : {1, MaxPort + 1},
   proto : {"", "udp"}]

Published ==
  {ports \in BoundedSeq({Port(1, 1), Port(2, 1), Port(MaxPort, 2)}, 2) : ValidatePorts(ports)}

Hosts(ports) == {p.host : p \in ports}

(* What the published set becomes is what was asked for, and what there    *)
(* was whose host port was neither published nor unpublished, each host    *)
(* port once and in order (ports.go:92-96).                                *)
PortsAsAsked ==
  \A args \in BoundedSeq(PortArgs, 2), current \in Published, gone \in BoundedSeq({1, 2}, 1) :
    LET added == ParsePorts(args)
        ports == ApplyPorts(current, added, gone)
    IN added # Refused =>
         /\ ValidatePorts(ports)
         /\ \A i, j \in 1 .. Len(ports) : i < j => ports[i].host < ports[j].host
         /\ ToSet(ports) =
              {p \in ToSet(added) : p.host \notin ToSet(gone)} \cup
              {p \in ToSet(current) : p.host \notin ToSet(gone) \cup Hosts(ToSet(added))}

Cwds == {Directory(<<"a">>), Path("/", <<"a">>, "ro"), Path("/", <<"a">>, "rx")}

WorkspaceArgs ==
  {[word |-> "", path |-> path] :
     path \in {NoPath, Path("", <<"b">>, "none"), Path("", <<"b">>, "ro"), Path("", <<>>, "ro"),
               Directory(<<"a">>), Path("/", <<"a">>, "rw"), Path("/", <<"a">>, ""),
               Directory(<<"a", "b">>), Path("/", <<"a", "b">>, "ro"), Path("/", <<"c">>, "rx")}}

AgentArg == [word |-> "codex", path |-> Path("", <<"codex">>, "none")]

(* What there is: /a with b in it, the same with a colon in its name, but   *)
(* no /c.                                                                  *)
MCDirectories ==
  {Path("/", names, suffix) : names \in {<<"a">>, <<"a", "b">>}, suffix \in {"none", "ro", "rx"}}

SpecFlags ==
  [name : {<<>>, <<"mark">>, <<"letter">>}, base : {<<>>, <<"odd", "mark">>}, image : {"", "i"},
   clone : BOOLEAN, env : {<<>>, <<[name |-> "A", equals |-> TRUE, value |-> "1"]>>,
                           <<[name |-> "", equals |-> TRUE, value |-> "1"]>>}]

(* What is mounted of a spec that was accepted is what was asked for, each *)
(* directory once and none twice over by a colon in its name, and nothing  *)
(* of it can be written that was to be read only or is cloned              *)
(* (oci.go:299-313, validate.go:67-85).  What was asked for are the        *)
(* arguments, or the directory plbx was invoked from where that has no     *)
(* colon.                                                                  *)
SpecsMean ==
  \A flags \in SpecFlags, args \in BoundedSeq(WorkspaceArgs, 2), named \in BOOLEAN, cwd \in Cwds :
    LET spec == BuildSpec(flags, (IF named THEN <<AgentArg>> ELSE <<>>) \o args, cwd, MCDirectories)
        ws == spec.workspaces
        M(i) == Mount(ws[i], i = 1, spec.clone)
        Asked(i) == (IF IsAbs(args[i].path) THEN <<>> ELSE cwd.names) \o args[i].path.names
    IN spec # Refused /\ ValidSpec(spec) =>
         /\ spec.agent = IF named THEN "codex" ELSE DefaultAgent
         /\ \A i \in 1 .. Len(ws) :
              /\ IsAbs(M(i).dst) /\ ~HasColon(M(i).dst) /\ M(i).src = M(i).dst
              /\ \A k \in 1 .. i - 1 : M(k).dst # M(i).dst
         /\ IF args = <<>>
              THEN ~HasColon(cwd) => M(1).src = cwd /\ (M(1).readOnly <=> spec.clone)
              ELSE \A i \in 1 .. Len(ws) :
                     /\ M(i).src = Directory(Asked(i))
                     /\ M(i).readOnly <=> spec.clone \/ args[i].path.suffix = "ro"
         /\ ~spec.clone => Workdir(spec) = M(1).dst

Assigned(env, e) ==
  [k \in DOMAIN env \cup {e.name} |-> IF k = e.name THEN e.value ELSE env[k]]

Environs ==
  BoundedSeq([name : {"TERM", "LC_ALL", "LD_PRELOAD"}, equals : BOOLEAN, value : {"1", "2"}], 2)

(* What a client of the gateway sets is set if it is allowed to be, and    *)
(* the later of two counts (session.go).                                   *)
EnvironmentKept ==
  \A e \in Environs :
    LET asked == FoldLeft(Assigned, <<>>, SelectSeq(e, LAMBDA v : v.equals)) IN
      AllowedEnv(e) = [k \in {v \in DOMAIN asked : EnvAllows(v)} |-> asked[k]]

CopyArgs ==
  [front : {<<>>, <<"letter">>, <<"odd">>, <<"mark", "letter">>}, colon : BOOLEAN,
   rest : {"", "/p"}]

(* A copy is between the host and one sandbox, whose name is a valid one   *)
(* (api.go:330-345).                                                       *)
CopiesCross ==
  \A s, t \in {ParseCopyPath(a) : a \in CopyArgs} \ {Refused} :
    /\ InSandbox(s) => ValidName(s.sandbox)
    /\ CopyRef(s, t) # Refused <=> (InSandbox(s) <=> ~InSandbox(t))

(* What the arguments of a command come to is what was asked for, and the  *)
(* ports that come of one command after the other can still be published   *)
(* (validate.go:106-108) and told of.                                      *)
ArgumentsMean ==
  /\ NamesMade /\ PortsAsAsked /\ SpecsMean /\ EnvironmentKept /\ CopiesCross
  /\ \A n \in Names :
       Exists(n) => /\ ValidatePorts(boxes[n].ports)
                    /\ IsSandbox(Record(n, boxes[n], boxes[n].status))

Times == {ZeroTime, t1}

Specs ==
  [name : {"a"}, agent : {"claude"}, image : {"i"}, clone : BOOLEAN, env : {<<>>},
   workspaces : BoundedSeq([host : {"/a"}, readOnly : BOOLEAN], 2),
   resources : {NoResources, [cpus |-> 1, memory |-> 2]}, createdAt : Times]

States ==
  [status : {"idle", "running"}, container : {"", "c"}, startedAt : Times, exitCode : {0, 2}]

Forwarded == BoundedSeq({Port(1, 1), Port(2, 1)}, 2)

(* Every spec, every state and every set of ports, each beside one of the  *)
(* others: they cross apart from each other.                               *)
MCAnswers ==
  {[spec |-> s, state |-> ZeroState, ports |-> <<Port(1, 1)>>] : s \in Specs} \cup
  {[spec |-> ZeroSpec, state |-> s, ports |-> ports] : s \in States, ports \in Forwarded}
=============================================================================
