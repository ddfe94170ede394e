------------------------------ MODULE Arguments ------------------------------
(***************************************************************************)
(* What is made of a command's arguments before anything is asked of the   *)
(* daemon, and what the service refuses of them (cmd/plbx: parse.go,       *)
(* spec.go, ports.go, create.go; internal/api: validate.go, agent.go,      *)
(* api.go; the command lines of internal/runner/oci.go they end up in).    *)
(*                                                                         *)
(* A character is one of three kinds, which is what names are made from;   *)
(* an argument with colons in it is the sequence of what they separate.    *)
(***************************************************************************)
EXTENDS Naturals, Sequences, FiniteSets

LOCAL INSTANCE SequencesExt
LOCAL INSTANCE FiniteSetsExt

CONSTANTS
  Refused,   (* an error in place of a value                                *)
  MaxName,   (* 63 in the code: the length of a name                        *)
  MaxPort    (* 65535 in the code                                           *)

-----------------------------------------------------------------------------
(* Names.  A letter or digit, one of . _ -, and anything else.             *)

Character == {"letter", "mark", "odd"}

ValidName(name) ==
  /\ Len(name) \in 1 .. MaxName
  /\ name[1] = "letter"
  /\ \A i \in 2 .. Len(name) : name[i] # "odd"

(* Each run of odd characters becomes one dash. *)
Sanitized(base) ==
  LET Starts(i) == base[i] = "odd" /\ (i = 1 \/ base[i - 1] # "odd")
      Kept == {i \in 1 .. Len(base) : base[i] # "odd" \/ Starts(i)}
      Clean(i) == IF base[i] = "odd" THEN "mark" ELSE base[i]
      order == SetToSortSeq(Kept, <)
  IN [k \in 1 .. Len(order) |-> Clean(order[k])]

TrimLeft(name) ==
  LET letters == {i \in 1 .. Len(name) : name[i] = "letter"}
  IN IF letters = {} THEN <<>> ELSE SubSeq(name, Min(letters), Len(name))

DefaultName == [i \in 1 .. MaxName |-> "letter"]

(* As SandboxName, and as long as the directory's name is. *)
SandboxNameUncut(base) ==
  LET name == TrimLeft(Sanitized(base)) IN
    IF name = <<>> THEN DefaultName ELSE name

SandboxName(base) ==
  LET name == TrimLeft(Sanitized(base)) IN
    IF name = <<>> THEN DefaultName
    ELSE SubSeq(name, 1, IF Len(name) > MaxName THEN MaxName ELSE Len(name))

-----------------------------------------------------------------------------
(* Workspaces.  A path is what it starts with, the names in it, and what   *)
(* follows its first colon, "none" when it has none.                       *)

Path(start, names, suffix) == [start |-> start, names |-> names, suffix |-> suffix]

Directory(names) == Path("/", names, "none")

IsAbs(path) == path.start = "/"

HasColon(path) == path.suffix # "none"

NoPath == Path("", <<>>, "none")

(* A relative path goes behind the directory plbx was invoked from, and a  *)
(* colon in that stays in what comes of it.                                *)
Resolve(path, cwd) ==
  IF IsAbs(path) THEN path ELSE Path("/", cwd.names \o path.names, cwd.suffix)

(* path[:ro|rw]: read-write is the default, and any other colon is refused. *)
ParseWorkspace(path, cwd) ==
  LET head == [path EXCEPT !.suffix = "none"] IN
    IF head = NoPath \/ path.suffix \notin {"none", "ro", "rw"}
      THEN Refused
      ELSE [host |-> Resolve(head, cwd), readOnly |-> path.suffix = "ro"]

ValidWorkspaces(workspaces) ==
  \A i \in 1 .. Len(workspaces) :
    LET host == workspaces[i].host IN
      /\ host # NoPath /\ IsAbs(host) /\ ~HasColon(host)
      /\ \A k \in 1 .. i - 1 : workspaces[k].host # host

(* As Mount, with clone mode for what it clones alone. *)
MountPrimary(ws, primary, clone) ==
  [src |-> ws.host, dst |-> ws.host, readOnly |-> ws.readOnly \/ (clone /\ primary)]

(* The --volume that a workspace becomes; clone mode leaves none writable. *)
Mount(ws, primary, clone) ==
  [src |-> ws.host, dst |-> ws.host, readOnly |-> ws.readOnly \/ clone]

-----------------------------------------------------------------------------
(* Ports                                                                   *)

(* host:sandbox, or a bare port for both; "" is tcp. *)
ParsePort(arg) ==
  LET sandbox == IF arg.bare THEN arg.host ELSE arg.sandbox IN
    IF arg.proto \notin {"", "tcp"} \/ {arg.host, sandbox} \cap 1 .. MaxPort # {arg.host, sandbox}
      THEN Refused
      ELSE [host |-> arg.host, sandbox |-> sandbox, proto |-> "", bind |-> ""]

ValidatePorts(ports) ==
  \A i \in 1 .. Len(ports) :
    /\ ports[i].host \in 1 .. MaxPort /\ ports[i].sandbox \in 1 .. MaxPort
    /\ ports[i].proto \in {"", "tcp"}
    /\ \A k \in 1 .. i - 1 : ports[k].host # ports[i].host

Parsed(args) == [i \in 1 .. Len(args) |-> ParsePort(args[i])]

ParsePorts(args) ==
  IF Refused \in ToSet(Parsed(args)) \/ ~ValidatePorts(Parsed(args))
    THEN Refused ELSE Parsed(args)

ByHost(p, q) == p.host < q.host

Without(ports, host) == SelectSeq(ports, LAMBDA p : p.host # host)

(* As With, with what was published for the host port left in place. *)
WithBoth(ports, p) == Append(ports, p)

(* The last mapping asked for of a host port is the one there is. *)
With(ports, p) == Append(Without(ports, p.host), p)

(* --publish, then --unpublish, in order of host ports. *)
ApplyPorts(current, added, removed) ==
  SortSeq(FoldLeft(Without, FoldLeft(With, current, added), removed), ByHost)

-----------------------------------------------------------------------------
(* The sandbox side of a copy                                              *)

(* NAME:/path is in a sandbox if NAME could be the name of one; any other  *)
(* argument is a path of the host, colon and all.                          *)
ParseCopyPath(arg) ==
  IF arg.front = <<>> /\ ~arg.colon THEN Refused
  ELSE IF arg.colon /\ arg.rest # "" /\ ValidName(arg.front)
    THEN [sandbox |-> arg.front, path |-> [front |-> <<>>, colon |-> FALSE, rest |-> arg.rest]]
    ELSE [sandbox |-> <<>>, path |-> arg]

InSandbox(p) == p.sandbox # <<>>

CopyRef(src, dst) ==
  CASE InSandbox(src) /\ ~InSandbox(dst) -> src.sandbox
    [] ~InSandbox(src) /\ InSandbox(dst) -> dst.sandbox
    [] OTHER -> Refused

-----------------------------------------------------------------------------
(* Agents and environments                                                 *)

Agents == <<"claude", "codex", "opencode", "shell">>

DefaultAgent == "claude"

LookupAgent(name) == IF name \in ToSet(Agents) THEN name ELSE Refused

(* The first argument is the agent when it names one. *)
SplitAgent(args) ==
  IF args # <<>> /\ args[1].word \in ToSet(Agents)
    THEN [agent |-> args[1].word, paths |-> Tail(args)]
    ELSE [agent |-> DefaultAgent, paths |-> args]

(* NAME=VALUE; a later one counts. *)
Environment(pairs) ==
  LET Latest(k) == CHOOSE i \in 1 .. Len(pairs) :
                   pairs[i].name = k /\ \A j \in i + 1 .. Len(pairs) : pairs[j].name # k
  IN [k \in {pairs[i].name : i \in 1 .. Len(pairs)} |-> pairs[Latest(k)].value]

ParseEnv(args) ==
  IF \E i \in 1 .. Len(args) : args[i].name = "" \/ ~args[i].equals THEN Refused
  ELSE Environment(args)

(* What an ssh client may set: four names, and the family of LC_.          *)
EnvAllows(name) == name \in {"COLORTERM", "LANG", "TERM", "TZ", "LC_ALL"}

AllowedEnv(environ) ==
  Environment(SelectSeq(environ, LAMBDA e : e.equals /\ EnvAllows(e.name)))

-----------------------------------------------------------------------------
(* Specs                                                                   *)

ValidSpec(spec) ==
  /\ ValidName(spec.name) /\ spec.image # "" /\ LookupAgent(spec.agent) # Refused
  /\ ValidWorkspaces(spec.workspaces)
  /\ "" \notin DOMAIN spec.env
  /\ spec.clone => spec.workspaces # <<>>

(* The workspace is where plbx was invoked when there is none named, read  *)
(* like any argument, and each has to be one of the directories there are. *)
(* The name is that of the first one when --name is not given.             *)
BuildSpec(flags, args, cwd, directories) ==
  LET split == SplitAgent(args)
      paths == IF split.paths = <<>> THEN <<[word |-> "", path |-> cwd]>> ELSE split.paths
      workspaces == [i \in 1 .. Len(paths) |-> ParseWorkspace(paths[i].path, cwd)]
  IN IF \/ Refused \in ToSet(workspaces)
        \/ \E ws \in ToSet(workspaces) : ws.host \notin directories
        \/ ParseEnv(flags.env) = Refused
       THEN Refused
       ELSE [name |-> IF flags.name # <<>> THEN flags.name
                      ELSE SandboxName(flags.base),
             agent |-> split.agent, image |-> IF flags.image # "" THEN flags.image ELSE split.agent,
             workspaces |-> workspaces, env |-> ParseEnv(flags.env), clone |-> flags.clone]

(* Where a session opens: the clone, named after the primary workspace, or *)
(* that workspace.                                                         *)
Workdir(spec) ==
  IF spec.workspaces = <<>> THEN NoPath
  ELSE IF spec.clone THEN Directory(<<"home", "agent", Last(spec.workspaces[1].host.names)>>)
  ELSE spec.workspaces[1].host
=============================================================================
