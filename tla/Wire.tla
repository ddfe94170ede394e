-------------------------------- MODULE Wire --------------------------------
(***************************************************************************)
(* What crosses the socket between `plbx` and plbxd, and what comes out at *)
(* the other end (internal/api/rpc: errors.go, convert.go, and the unary   *)
(* calls of client.go and server.go).                                      *)
(*                                                                         *)
(* An error is a set of sentinels, those that errors.Is finds in it; an    *)
(* error without any is {}.  A message that is not set is Nil, which has   *)
(* no fields.                                                              *)
(***************************************************************************)
EXTENDS Naturals, Sequences

CONSTANTS
  NoError,  (* a call that succeeded                                        *)
  ZeroTime, (* Go's zero time.Time: it never happened                       *)
  Answers   (* sandboxes that the service may answer with                   *)

-----------------------------------------------------------------------------
(* Errors                                                                  *)

Sentinel(err, code) == [err |-> err, code |-> code]

(* As Sentinels, with a code given out twice. *)
SentinelsSharing == <<
  Sentinel("NotFound", "NotFound"),
  Sentinel("Exists", "AlreadyExists"),
  Sentinel("Running", "FailedPrecondition"),
  Sentinel("NotImplemented", "Unimplemented"),
  Sentinel("NoPolicy", "Unavailable"),
  Sentinel("PortsUnavailable", "FailedPrecondition"),
  Sentinel("CloneFailed", "Aborted"),
  Sentinel("RemoteNotAdded", "DataLoss"),
  Sentinel("Canceled", "Canceled"),
  Sentinel("DeadlineExceeded", "DeadlineExceeded") >>

Sentinels == <<
  Sentinel("NotFound", "NotFound"),
  Sentinel("Exists", "AlreadyExists"),
  Sentinel("Running", "FailedPrecondition"),
  Sentinel("NotImplemented", "Unimplemented"),
  Sentinel("NoPolicy", "Unavailable"),
  Sentinel("PortsUnavailable", "ResourceExhausted"),
  Sentinel("CloneFailed", "Aborted"),
  Sentinel("RemoteNotAdded", "DataLoss"),
  Sentinel("Canceled", "Canceled"),
  Sentinel("DeadlineExceeded", "DeadlineExceeded") >>

Kinds == {Sentinels[i].err : i \in 1 .. Len(Sentinels)}

(* The first entry of the table that T holds of. *)
FirstOf(T(_)) ==
  CHOOSE i \in 1 .. Len(Sentinels) :
    T(Sentinels[i]) /\ \A k \in 1 .. i - 1 : ~T(Sentinels[k])

WireError(err) ==
  IF err = NoError THEN "OK"
  ELSE IF err \cap Kinds = {} THEN "Unknown"
  ELSE LET In(s) == s.err \in err IN Sentinels[FirstOf(In)].code

(* What gRPC says for itself comes in with the same codes. *)
LocalError(code) ==
  IF code = "OK" THEN NoError
  ELSE IF \A i \in 1 .. Len(Sentinels) : Sentinels[i].code # code THEN {}
  ELSE LET Is(s) == s.code = code IN {Sentinels[FirstOf(Is)].err}

Over(err) == LocalError(WireError(err))

-----------------------------------------------------------------------------
(* Values                                                                  *)

Nil == <<>>

EachOf(Convert(_), s) == [i \in 1 .. Len(s) |-> Convert(s[i])]

ProtoTime(t) == IF t = ZeroTime THEN Nil ELSE t

ApiTime(p) == IF p = Nil THEN ZeroTime ELSE p

NoResources == [cpus |-> 0, memory |-> 0]

ZeroSpec ==
  [name |-> "", agent |-> "", image |-> "", workspaces |-> <<>>, resources |-> NoResources,
   env |-> <<>>, clone |-> FALSE, createdAt |-> ZeroTime]

ProtoWorkspace(w) == [host |-> w.host, readOnly |-> w.readOnly]

ProtoSpec(s) ==
  [name |-> s.name, agent |-> s.agent, image |-> s.image,
   workspaces |-> EachOf(ProtoWorkspace, s.workspaces),
   resources |-> s.resources, env |-> s.env, clone |-> s.clone,
   createdAt |-> ProtoTime(s.createdAt)]

ApiSpec(p) ==
  IF p = Nil THEN ZeroSpec
  ELSE [name |-> p.name, agent |-> p.agent, image |-> p.image,
        workspaces |-> EachOf(ProtoWorkspace, p.workspaces),
        resources |-> IF p.resources = Nil THEN NoResources ELSE p.resources,
        env |-> p.env, clone |-> p.clone, createdAt |-> ApiTime(p.createdAt)]

ZeroState == [status |-> "", container |-> "", startedAt |-> ZeroTime, exitCode |-> 0]

ProtoState(s) ==
  [status |-> s.status, container |-> s.container, startedAt |-> ProtoTime(s.startedAt),
   exitCode |-> s.exitCode]

(* As ApiState, with a sandbox that never started said to have. *)
ApiStateTimed(p) ==
  IF p = Nil THEN ZeroState
  ELSE [status |-> p.status, container |-> p.container, startedAt |-> p.startedAt,
        exitCode |-> p.exitCode]

ApiState(p) ==
  IF p = Nil THEN ZeroState
  ELSE [status |-> p.status, container |-> p.container, startedAt |-> ApiTime(p.startedAt),
        exitCode |-> p.exitCode]

ProtoPort(p) == [host |-> p.host, sandbox |-> p.sandbox, proto |-> p.proto, bind |-> p.bind]

ProtoSandbox(sb) ==
  [spec |-> ProtoSpec(sb.spec), state |-> ProtoState(sb.state),
   ports |-> EachOf(ProtoPort, sb.ports)]

ZeroSandbox == [spec |-> ZeroSpec, state |-> ZeroState, ports |-> <<>>]

ApiSandbox(p) ==
  IF p = Nil THEN ZeroSandbox
  ELSE [spec |-> ApiSpec(p.spec), state |-> ApiState(p.state),
        ports |-> EachOf(ProtoPort, p.ports)]

(* A sandbox has the fields of one; its times and its limits are not unset. *)
IsSandbox(sb) ==
  LET spec == sb.spec state == sb.state ports == sb.ports IN
    /\ sb = [spec |-> spec, state |-> state, ports |-> ports]
    /\ spec = [name |-> spec.name, agent |-> spec.agent, image |-> spec.image,
                workspaces |-> spec.workspaces, resources |-> spec.resources, env |-> spec.env,
                clone |-> spec.clone, createdAt |-> spec.createdAt]
    /\ spec.workspaces = [i \in 1 .. Len(spec.workspaces) |->
          [host |-> spec.workspaces[i].host, readOnly |-> spec.workspaces[i].readOnly]]
    /\ state = [status |-> state.status, container |-> state.container,
                 startedAt |-> state.startedAt, exitCode |-> state.exitCode]
    /\ ports = [i \in 1 .. Len(ports) |->
          [host |-> ports[i].host, sandbox |-> ports[i].sandbox,
           proto |-> ports[i].proto, bind |-> ports[i].bind]]
    /\ Nil \notin {spec.resources, spec.createdAt, state.startedAt}

ASSUME WireAssumption ==
  /\ \A err \in SUBSET Kinds : err # NoError
  /\ \A sb \in Answers : IsSandbox(sb)

-----------------------------------------------------------------------------
(* Calls                                                                   *)

(* A reply: a value, and the error beside it. *)
Reply(value, err) == [value |-> value, err |-> err]

(* A call that answers with a sandbox (Inspect), and one that answers with *)
(* several (List): with an error there is nothing else.                    *)
CarrySandbox(r) ==
  IF r.err = NoError THEN Reply(ApiSandbox(ProtoSandbox(r.value)), NoError)
                     ELSE Reply(ZeroSandbox, Over(r.err))

CarrySandboxes(r) ==
  LET Carried(sb) == ApiSandbox(ProtoSandbox(sb)) IN
    IF r.err = NoError THEN Reply(EachOf(Carried, r.value), NoError)
                       ELSE Reply(<<>>, Over(r.err))

(* As CarryCreated, with the remote's error sent as any other. *)
CarryCreatedOrNot(r) == CarrySandbox(r)

(* A remote that could not be added comes beside the sandbox. *)
CarryCreated(r) ==
  IF r.err # NoError /\ "RemoteNotAdded" \in r.err
    THEN Reply(ApiSandbox(ProtoSandbox(r.value)), {"RemoteNotAdded"})
    ELSE CarrySandbox(r)

(* Start, Stop, Remove, Copy, Publish, SetPolicy. *)
CarryDone(err) == Over(err)

-----------------------------------------------------------------------------
(* Properties                                                              *)

Survives(sb) == CarrySandbox(Reply(sb, NoError)) = Reply(sb, NoError)

(* What an error is still, and what comes beside it. *)
ErrorsSurvive(sb) ==
  \A err \in SUBSET Kinds :
    LET created == CarryCreated(Reply(sb, err)) remote == "RemoteNotAdded" \in err IN
      /\ CarrySandbox(Reply(sb, err)) = Reply(ZeroSandbox, CarryDone(err))
      /\ CarryDone(err) \subseteq err /\ (err # {} => CarryDone(err) # {})
      /\ \A kind \in Kinds : err = {kind} => CarryDone(err) = err
      /\ created.value = IF remote THEN sb ELSE ZeroSandbox
      /\ remote => created.err = {"RemoteNotAdded"}

AnswersSurvive == \A sb \in Answers : Survives(sb) /\ ErrorsSurvive(sb)
=============================================================================
