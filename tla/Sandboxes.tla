------------------------------ MODULE Sandboxes ------------------------------
(***************************************************************************)
(* The sandbox service: internal/api/direct over internal/runner (OCI) and *)
(* internal/store.                                                         *)
(*                                                                         *)
(* Every call of the service is a request that runs its handler a step at  *)
(* a time.  A step is one call the handler makes on something it shares    *)
(* with the other requests: a file of the store, or one command of the     *)
(* container runtime.  The service takes no lock and the gRPC server runs  *)
(* each call on a goroutine of its own, so the steps of different requests *)
(* interleave freely; TakeTurns restricts the CLIENTS to one call at a     *)
(* time per sandbox, which is what a user at one terminal does.            *)
(*                                                                         *)
(* A request keeps the record its find read (the Go variable sb) in snap,  *)
(* and writes that copy back.                                              *)
(***************************************************************************)

CONSTANTS
  Names,      (* sandbox names                                             *)
  Ports,      (* host ports a client may ask for                           *)
  Requests,   (* calls that can be in flight at once                       *)
  Clones,     (* the sandboxes whose spec asks for clone mode              *)
  Egress,     (* TRUE in the daemon, FALSE in-process (no proxy, no relay) *)
  Faults,     (* what may go wrong, see Fault                              *)
  TakeTurns,  (* TRUE: clients never overlap calls on one sandbox          *)
  NoRecord,   (* no file in the store                                      *)
  NoName      (* the sandbox of a request that is not running              *)

(* "refused": a command or a store call fails and changes nothing.         *)
(* "lost":    a command takes effect and its caller is told it failed, as  *)
(*            when Ctrl-C cancels the context that runs the CLI.           *)
(* "crash":   the daemon dies, and every request in flight with it.        *)
(* "exit":    a sandbox's container stops on its own.                      *)
Fault == {"refused", "lost", "crash", "exit"}

ASSUME ConstantsAssumption ==
  /\ Clones \subseteq Names
  /\ Egress \in BOOLEAN
  /\ TakeTurns \in BOOLEAN
  /\ Faults \subseteq Fault
  /\ NoName \notin Names

VARIABLES
  records,   (* the store's record files, by sandbox                       *)
  policy,    (* the store's policy file: none, default, or a user's choice *)
  runtime,   (* what the container runtime holds for each sandbox          *)
  remotes,   (* sandboxes that are a git remote of the host repository     *)
  requests   (* the calls in flight                                        *)

vars == <<records, policy, runtime, remotes, requests>>

-----------------------------------------------------------------------------
(* Data                                                                    *)

(* "unknown" is what a word of the runtime's that plbx has no name for     *)
(* comes to.                                                               *)
Statuses == {"created", "running", "stopped", "missing", "unknown"}

Record == [status : Statuses, ports : SUBSET Ports]

ASSUME NoRecordAssumption ==
  /\ NoRecord \notin Record
  /\ \A ports \in SUBSET Ports : ports # NoRecord

Forwarder == [present : BOOLEAN, ports : SUBSET Ports, attached : BOOLEAN]

(* The container, home volume, network, relay and port forwarder the       *)
(* runtime knows by names derived from the sandbox's, and the clone kept   *)
(* inside the home volume.                                                 *)
Objects ==
  [container : {"none", "created", "running", "stopped"},
   volume    : BOOLEAN,
   network   : BOOLEAN,
   relay     : {"none", "detached", "attached"},
   forwarder : Forwarder,
   clone     : {"none", "partial", "whole"}]

NoForwarder   == [present |-> FALSE, ports |-> {}, attached |-> FALSE]
DeadForwarder == [present |-> TRUE,  ports |-> {}, attached |-> FALSE]

Nothing ==
  [container |-> "none", volume |-> FALSE, network |-> FALSE,
   relay |-> "none", forwarder |-> NoForwarder, clone |-> "none"]

Operations == {"create", "start", "stop", "remove", "publish"}

(* The calls each handler makes, in the order it makes them; a label is    *)
(* the call to come.                                                       *)
LabelsOf(op) ==
  CASE op = "none"    -> {"resting"}
    [] op = "create"  -> {"checkName", "readPolicy", "writePolicy", "makeNetwork",
                          "createContainer", "putNew", "addRemote"}
    [] op = "start"   -> {"find", "dropRelay", "runRelay", "attachRelay", "startContainer",
                          "observe", "putState", "makeClone", "finishClone",
                          "unpublish", "runForwarder", "dropForwarder", "attachForwarder"}
    [] op = "stop"    -> {"find", "stopContainer", "unpublish", "dropRelay", "observe",
                          "putState"}
    [] op = "remove"  -> {"find", "observe", "rmContainer", "rmVolume", "unpublish",
                          "dropRelay", "rmNetwork", "dropRemote", "deleteRecord"}
    [] op = "publish" -> {"find", "putPorts", "observe",
                          "unpublish", "runForwarder", "dropForwarder", "attachForwarder"}

Labels == UNION {LabelsOf(op) : op \in Operations \cup {"none"}}

(* A call knows its sandbox, and past its find it has a record to work on. *)
Request ==
  {call \in [op    : Operations \cup {"none"},
             name  : Names \cup {NoName},
             pc    : Labels,
             snap  : Record \cup {NoRecord},
             ports : SUBSET Ports,
             force : BOOLEAN,
             out   : {"none", "ok", "error"}] :
     /\ call.pc \in LabelsOf(call.op)
     /\ call.name = NoName <=> call.op = "none"
     /\ call.op \in {"start", "stop", "remove", "publish"} /\ call.pc # "find" =>
          call.snap # NoRecord}

Resting(out) ==
  [op |-> "none", name |-> NoName, pc |-> "resting", snap |-> NoRecord,
   ports |-> {}, force |-> FALSE, out |-> out]

TypeOK ==
  /\ records  \in [Names -> Record \cup {NoRecord}]
  /\ policy   \in {"none", "default", "chosen"}
  /\ runtime  \in [Names -> Objects]
  /\ remotes  \subseteq Names
  /\ requests \in [Requests -> Request]

Init ==
  /\ records  = [n \in Names |-> NoRecord]
  /\ policy   = "none"
  /\ runtime  = [n \in Names |-> Nothing]
  /\ remotes  = {}
  /\ requests = [r \in Requests |-> Resting("none")]

-----------------------------------------------------------------------------
(* How a handler moves                                                     *)

At(r, label) == requests[r].pc = label
Name(r)      == requests[r].name
Mine(r)      == runtime[Name(r)]

Goto(r, label) == requests' = [requests EXCEPT ![r].pc = label]
Return(r, out) == requests' = [requests EXCEPT ![r] = Resting(out)]

(* A handler's next call, or its return when there is none. *)
Proceed(r, label) ==
  IF label = "return" THEN Return(r, "ok") ELSE Goto(r, label)

(* Not the code's: takes every refusal for one that can be tolerated.      *)
CommandTolerant(r, granted, effect, label) ==
  /\ runtime' = IF granted THEN [runtime EXCEPT ![Name(r)] = effect] ELSE runtime
  /\ Proceed(r, label)
  /\ UNCHANGED <<records, policy, remotes>>

(* One runtime command.  It is granted or refused by the runtime, and when *)
(* it fails the handler returns the error; a refusal the handler tolerates *)
(* (nothing to remove, already there) is a grant that changes nothing.     *)
Command(r, granted, effect, label) ==
  /\ \/ /\ granted
        /\ runtime' = [runtime EXCEPT ![Name(r)] = effect]
        /\ Proceed(r, label)
     \/ /\ granted /\ "lost" \in Faults
        /\ runtime' = [runtime EXCEPT ![Name(r)] = effect]
        /\ Return(r, "error")
     \/ /\ ~granted \/ "refused" \in Faults
        /\ Return(r, "error")
        /\ UNCHANGED runtime
  /\ UNCHANGED <<records, policy, remotes>>

(* Put replaces the whole record by the request's copy. *)
Put(r, record, label) ==
  /\ \/ /\ records' = [records EXCEPT ![Name(r)] = record]
        /\ Proceed(r, label)
     \/ /\ "refused" \in Faults
        /\ Return(r, "error")
        /\ UNCHANGED records
  /\ UNCHANGED <<policy, runtime, remotes>>

-----------------------------------------------------------------------------
(* Defective variants of some of the definitions below, each with one      *)
(* plausible mistake.  Nothing here uses them: they show that the          *)
(* properties at the end of the module would notice.                       *)

(* takes a forwarder that would not go for one that has gone *)
UnpublishBestEffort(r) ==
  /\ At(r, "unpublish")
  /\ runtime' \in {runtime, [runtime EXCEPT ![Name(r)].forwarder = NoForwarder]}
  /\ Proceed(r, IF requests[r].op \in {"stop", "remove"} THEN "dropRelay"
                ELSE IF requests[r].snap.ports = {} THEN "return" ELSE "runForwarder")
  /\ UNCHANGED <<records, policy, remotes>>

(* leaves the sidecars to the next start *)
StopContainerOnly(r) ==
  /\ At(r, "stopContainer")
  /\ Command(r, TRUE,
       [Mine(r) EXCEPT !.container = IF @ = "running" THEN "stopped" ELSE @], "observe")

(* counts on `rm --volumes` to take the home volume *)
RmContainerAndVolumes(r) ==
  /\ At(r, "rmContainer")
  /\ Command(r, Mine(r).container = "running" => requests[r].force,
       [Mine(r) EXCEPT !.container = "none"], "unpublish")

(* leaves the relay on the network it was run on *)
RunRelayOnly(r) ==
  /\ At(r, "runRelay")
  /\ Command(r, Mine(r).relay = "none", [Mine(r) EXCEPT !.relay = "detached"], "startContainer")

(* publishes the ports it read rather than those it wrote *)
PutPortsOnly(r) ==
  /\ At(r, "putPorts")
  /\ records' = [records EXCEPT ![Name(r)] =
                   [requests[r].snap EXCEPT !.ports = requests[r].ports]]
  /\ Goto(r, "observe")
  /\ UNCHANGED <<policy, runtime, remotes>>

(* leaves the policy to the caller *)
SettleNever(r) ==
  /\ At(r, "readPolicy")
  /\ Goto(r, "makeNetwork")
  /\ UNCHANGED <<records, policy, runtime, remotes>>

(* writes a record of the state alone *)
PutStateOnly(r) ==
  /\ At(r, "putState")
  /\ Put(r, [requests[r].snap EXCEPT !.ports = {}],
         IF requests[r].op = "start" THEN "makeClone" ELSE "return")

(* makes room for a fresh clone every time *)
MakeCloneAfresh(r) ==
  /\ At(r, "makeClone")
  /\ runtime' = [runtime EXCEPT ![Name(r)].clone =
                   IF Name(r) \in Clones THEN "partial" ELSE "none"]
  /\ Goto(r, IF Name(r) \in Clones THEN "finishClone" ELSE "unpublish")
  /\ UNCHANGED <<records, policy, remotes>>

(* leaves the remote to the user *)
KeepRemote(r) ==
  /\ At(r, "dropRemote")
  /\ Goto(r, "deleteRecord")
  /\ UNCHANGED <<records, policy, runtime, remotes>>

-----------------------------------------------------------------------------
(* A call arrives                                                          *)

Overlaps(r, n) == \E q \in Requests \ {r} : Name(q) = n

Begin(r, op, n, ports, force) ==
  /\ At(r, "resting")
  /\ TakeTurns => ~Overlaps(r, n)
  /\ requests' = [requests EXCEPT ![r] =
       [op |-> op, name |-> n, pc |-> IF op = "create" THEN "checkName" ELSE "find",
        snap |-> NoRecord, ports |-> ports, force |-> force, out |-> "none"]]
  /\ UNCHANGED <<records, policy, runtime, remotes>>

Call(r) ==
  \E n \in Names :
    \/ \E op \in {"create", "start", "stop"} : Begin(r, op, n, {}, FALSE)
    \/ \E force \in BOOLEAN : Begin(r, "remove", n, {}, force)
    \/ \E ports \in SUBSET Ports : Begin(r, "publish", n, ports, FALSE)

(* SetPolicy is one write, made by a client that answers the wizard or     *)
(* runs `plbx policy`.                                                     *)
SetPolicy ==
  /\ policy' = "chosen"
  /\ UNCHANGED <<records, runtime, remotes, requests>>

-----------------------------------------------------------------------------
(* Create                                                                  *)

CheckName(r) ==
  /\ At(r, "checkName")
  /\ IF records[Name(r)] = NoRecord THEN Goto(r, "readPolicy") ELSE Return(r, "error")
  /\ UNCHANGED <<records, policy, runtime, remotes>>

ReadPolicy(r) ==
  /\ At(r, "readPolicy")
  /\ Goto(r, IF policy = "none" THEN "writePolicy" ELSE "makeNetwork")
  /\ UNCHANGED <<records, policy, runtime, remotes>>

WritePolicy(r) ==
  /\ At(r, "writePolicy")
  /\ \/ policy' = "default" /\ Goto(r, "makeNetwork")
     \/ "refused" \in Faults /\ Return(r, "error") /\ UNCHANGED policy
  /\ UNCHANGED <<records, runtime, remotes>>

MakeNetwork(r) ==
  /\ At(r, "makeNetwork")
  /\ Command(r, TRUE, [Mine(r) EXCEPT !.network = TRUE], "createContainer")

(* The runtime refuses a second container of one name, and one on a        *)
(* network that does not exist; the home volume comes with the container.  *)
CreateContainer(r) ==
  /\ At(r, "createContainer")
  /\ Command(r, Mine(r).container = "none" /\ Mine(r).network,
       [Mine(r) EXCEPT !.container = "created", !.volume = TRUE], "putNew")

PutNew(r) ==
  /\ At(r, "putNew")
  /\ Put(r, [status |-> "created", ports |-> {}], "addRemote")

AddRemote(r) ==
  /\ At(r, "addRemote")
  /\ \/ /\ remotes' = IF Name(r) \in Clones THEN remotes \cup {Name(r)} ELSE remotes
        /\ Return(r, "ok")
     \/ /\ Name(r) \in Clones /\ "refused" \in Faults
        /\ Return(r, "error")
        /\ UNCHANGED remotes
  /\ UNCHANGED <<records, policy, runtime>>

-----------------------------------------------------------------------------
(* Start, Stop, Remove and Publish begin by reading the record             *)

FirstCall(r) ==
  CASE requests[r].op = "start"   -> IF Egress THEN "dropRelay" ELSE "startContainer"
    [] requests[r].op = "stop"    -> "stopContainer"
    [] requests[r].op = "remove"  -> IF requests[r].force THEN "rmContainer" ELSE "observe"
    [] requests[r].op = "publish" -> "putPorts"

Find(r) ==
  /\ At(r, "find")
  /\ IF records[Name(r)] = NoRecord
     THEN Return(r, "error")
     ELSE requests' = [requests EXCEPT ![r].pc = FirstCall(r),
                                       ![r].snap = records[Name(r)]]
  /\ UNCHANGED <<records, policy, runtime, remotes>>

(* The runtime's answer, or the recorded status when it gives none.  It    *)
(* has words for a container on its way out that come to "unknown".        *)
Observed(r) ==
  {IF Mine(r).container = "none" THEN "missing" ELSE Mine(r).container}
    \cup (IF Mine(r).container = "stopped" THEN {"unknown"} ELSE {})
    \cup (IF "refused" \in Faults THEN {requests[r].snap.status} ELSE {})

(* Start and Stop record what they see, Publish goes on only if the        *)
(* sandbox is running, and Remove only if it is not.                       *)
Observe(r) ==
  /\ At(r, "observe")
  /\ \E status \in Observed(r) :
       CASE requests[r].op \in {"start", "stop"} ->
              requests' = [requests EXCEPT ![r].pc = "putState", ![r].snap.status = status]
         [] requests[r].op = "publish" ->
              Proceed(r, IF status = "running" THEN "unpublish" ELSE "return")
         [] requests[r].op = "remove" ->
              IF status = "running" THEN Return(r, "error") ELSE Goto(r, "rmContainer")
  /\ UNCHANGED <<records, policy, runtime, remotes>>

PutState(r) ==
  /\ At(r, "putState")
  /\ Put(r, requests[r].snap, IF requests[r].op = "start" THEN "makeClone" ELSE "return")

-----------------------------------------------------------------------------
(* The relay: dropped by Start before it runs a fresh one, by Stop, and by *)
(* Remove.  The shared networks that sidecars are run on outlive every     *)
(* sandbox, and making one again is tolerated: to be refused one ends the  *)
(* call as being refused the step before it does.                          *)

DropRelay(r) ==
  /\ At(r, "dropRelay")
  /\ Command(r, TRUE, [Mine(r) EXCEPT !.relay = "none"],
       CASE requests[r].op = "start"  -> "runRelay"
         [] requests[r].op = "stop"   -> "observe"
         [] requests[r].op = "remove" -> "rmNetwork")

RunRelay(r) ==
  /\ At(r, "runRelay")
  /\ Command(r, Mine(r).relay = "none", [Mine(r) EXCEPT !.relay = "detached"], "attachRelay")

AttachRelay(r) ==
  /\ At(r, "attachRelay")
  /\ Command(r, Mine(r).relay # "none" /\ Mine(r).network,
       [Mine(r) EXCEPT !.relay = "attached"], "startContainer")

-----------------------------------------------------------------------------
(* Start and Stop                                                          *)

StartContainer(r) ==
  /\ At(r, "startContainer")
  /\ Command(r, Mine(r).container # "none" /\ Mine(r).network,
       [Mine(r) EXCEPT !.container = "running"], "observe")

(* The clone script leaves a clone that is already there alone, whatever   *)
(* became of the run that began it.                                        *)
MakeClone(r) ==
  LET runs == Mine(r).container = "running"
      old  == Mine(r).clone # "none"
  IN
  /\ At(r, "makeClone")
  /\ \/ /\ Name(r) \notin Clones \/ (runs /\ old)
        /\ Goto(r, "unpublish")
        /\ UNCHANGED runtime
     \/ /\ Name(r) \in Clones /\ runs /\ ~old
        /\ runtime' = [runtime EXCEPT ![Name(r)].clone = "partial"]
        /\ Goto(r, "finishClone")
     \/ /\ Name(r) \in Clones
        /\ ~runs \/ Faults \cap {"refused", "lost"} # {}
        /\ Return(r, "error")
        /\ UNCHANGED runtime
  /\ UNCHANGED <<records, policy, remotes>>

(* `git clone` and the remotes after it.  A script that fails by itself    *)
(* may have cleared up; one whose caller is gone may go on to the end; one *)
(* that is killed with its container leaves what there is.                 *)
FinishClone(r) ==
  LET runs == Mine(r).container = "running" /\ Mine(r).clone = "partial" IN
  /\ At(r, "finishClone")
  /\ \/ /\ runs
        /\ runtime' = [runtime EXCEPT ![Name(r)].clone = "whole"]
        /\ Goto(r, "unpublish")
     \/ /\ runs
        /\ \E clone \in (IF "lost" \in Faults THEN {"partial", "whole"} ELSE {})
                    \cup (IF "refused" \in Faults THEN {"none", "partial"} ELSE {}) :
             runtime' = [runtime EXCEPT ![Name(r)].clone = clone]
        /\ Return(r, "error")
     \/ ~runs /\ Return(r, "error") /\ UNCHANGED runtime
  /\ UNCHANGED <<records, policy, remotes>>

StopContainer(r) ==
  /\ At(r, "stopContainer")
  /\ Command(r, TRUE,
       [Mine(r) EXCEPT !.container = IF @ = "running" THEN "stopped" ELSE @], "unpublish")

-----------------------------------------------------------------------------
(* The port forwarder: replaced by Start and Publish, removed by Stop and  *)
(* Remove                                                                  *)

PutPorts(r) ==
  /\ At(r, "putPorts")
  /\ \/ /\ records' = [records EXCEPT ![Name(r)] =
                         [requests[r].snap EXCEPT !.ports = requests[r].ports]]
        /\ requests' = [requests EXCEPT ![r].pc = "observe", ![r].snap.ports = requests[r].ports]
     \/ "refused" \in Faults /\ Return(r, "error") /\ UNCHANGED records
  /\ UNCHANGED <<policy, runtime, remotes>>

Unpublish(r) ==
  /\ At(r, "unpublish")
  /\ Command(r, TRUE, [Mine(r) EXCEPT !.forwarder = NoForwarder],
       CASE requests[r].op \in {"stop", "remove"} -> "dropRelay"
         [] requests[r].op \in {"start", "publish"} ->
              IF requests[r].snap.ports = {} THEN "return" ELSE "runForwarder")

(* Host ports the forwarders of other sandboxes are bound to. *)
Taken(n) == UNION {runtime[m].forwarder.ports : m \in Names \ {n}}

(* A run that fails partway may leave a container behind, holding nothing. *)
RunForwarder(r) ==
  LET free == /\ ~Mine(r).forwarder.present
              /\ requests[r].snap.ports \cap Taken(Name(r)) = {}
      up   == [present |-> TRUE, ports |-> requests[r].snap.ports, attached |-> FALSE]
  IN
  /\ At(r, "runForwarder")
  /\ \/ /\ free
        /\ runtime' = [runtime EXCEPT ![Name(r)].forwarder = up]
        /\ Goto(r, "attachForwarder")
     \/ /\ free /\ "lost" \in Faults
        /\ runtime' = [runtime EXCEPT ![Name(r)].forwarder = up]
        /\ Goto(r, "dropForwarder")
     \/ /\ ~free \/ "refused" \in Faults
        /\ runtime' = [runtime EXCEPT ![Name(r)].forwarder =
                         IF @.present THEN @ ELSE DeadForwarder]
        /\ Goto(r, "dropForwarder")
  /\ UNCHANGED <<records, policy, remotes>>

(* Publish's own clean-up, whose failure it ignores: the first error is    *)
(* the one returned either way.                                            *)
DropForwarder(r) ==
  /\ At(r, "dropForwarder")
  /\ \/ runtime' = [runtime EXCEPT ![Name(r)].forwarder = NoForwarder]
     \/ "refused" \in Faults /\ UNCHANGED runtime
  /\ Return(r, "error")
  /\ UNCHANGED <<records, policy, remotes>>

AttachForwarder(r) ==
  /\ At(r, "attachForwarder")
  /\ Command(r, Mine(r).forwarder.present /\ Mine(r).network,
       [Mine(r) EXCEPT !.forwarder.attached = TRUE], "return")

-----------------------------------------------------------------------------
(* Remove                                                                  *)

(* `rm` without --force refuses a running container. *)
RmContainer(r) ==
  /\ At(r, "rmContainer")
  /\ Command(r, Mine(r).container = "running" => requests[r].force,
       [Mine(r) EXCEPT !.container = "none"], "rmVolume")

(* A volume a container was created with cannot be removed. *)
RmVolume(r) ==
  /\ At(r, "rmVolume")
  /\ Command(r, Mine(r).container = "none",
       [Mine(r) EXCEPT !.volume = FALSE, !.clone = "none"], "unpublish")

(* A network cannot be removed while anything is attached to it. *)
RmNetwork(r) ==
  /\ At(r, "rmNetwork")
  /\ Command(r,
       /\ Mine(r).container # "running"
       /\ Mine(r).relay # "attached"
       /\ ~Mine(r).forwarder.attached,
       [Mine(r) EXCEPT !.network = FALSE], "dropRemote")

DropRemote(r) ==
  /\ At(r, "dropRemote")
  /\ \/ remotes' = remotes \ {Name(r)}
     \/ Name(r) \in Clones /\ "refused" \in Faults /\ UNCHANGED remotes
  /\ Goto(r, "deleteRecord")
  /\ UNCHANGED <<records, policy, runtime>>

DeleteRecord(r) ==
  /\ At(r, "deleteRecord")
  /\ \/ /\ records' = [records EXCEPT ![Name(r)] = NoRecord]
        /\ Return(r, IF records[Name(r)] = NoRecord THEN "error" ELSE "ok")
     \/ "refused" \in Faults /\ Return(r, "error") /\ UNCHANGED records
  /\ UNCHANGED <<policy, runtime, remotes>>

-----------------------------------------------------------------------------
(* What the requests do not decide                                         *)

ContainerExits(n) ==
  /\ "exit" \in Faults
  /\ runtime[n].container = "running"
  /\ runtime' = [runtime EXCEPT ![n].container = "stopped"]
  /\ UNCHANGED <<records, policy, remotes, requests>>

(* A daemon keeps nothing of a request: what survives is on disk and in    *)
(* the runtime.                                                            *)
DaemonDies ==
  /\ "crash" \in Faults
  /\ \E r \in Requests : ~At(r, "resting")
  /\ requests' = [r \in Requests |->
                    IF At(r, "resting") THEN requests[r] ELSE Resting("error")]
  /\ UNCHANGED <<records, policy, runtime, remotes>>

-----------------------------------------------------------------------------
Step(r) ==
  \/ CheckName(r) \/ ReadPolicy(r) \/ WritePolicy(r)
  \/ MakeNetwork(r) \/ CreateContainer(r) \/ PutNew(r) \/ AddRemote(r)
  \/ Find(r) \/ Observe(r) \/ PutState(r)
  \/ DropRelay(r) \/ RunRelay(r) \/ AttachRelay(r)
  \/ StartContainer(r) \/ MakeClone(r) \/ FinishClone(r) \/ StopContainer(r)
  \/ PutPorts(r) \/ Unpublish(r) \/ RunForwarder(r) \/ DropForwarder(r)
  \/ AttachForwarder(r)
  \/ RmContainer(r) \/ RmVolume(r) \/ RmNetwork(r) \/ DropRemote(r)
  \/ DeleteRecord(r)

Next ==
  \/ \E r \in Requests : Call(r) \/ Step(r)
  \/ SetPolicy
  \/ \E n \in Names : ContainerExits(n)
  \/ DaemonDies

Spec == Init /\ [][Next]_vars

-----------------------------------------------------------------------------
(* Properties                                                              *)

(* Request r returns success from a call of operation op in this step. *)
Finishes(r, op) ==
  /\ requests[r].op = op
  /\ requests'[r].pc = "resting"
  /\ requests'[r].out = "ok"

(* A relay or a port forwarder belongs to a sandbox that still has a       *)
(* record: Remove deletes the record last, after everything that could     *)
(* fail, so whatever a failed or interrupted call leaves running can still *)
(* be found and removed (direct.Remove, OCI.Remove).                       *)
SidecarsHaveRecord ==
  \A n \in Names :
    runtime[n].relay # "none" \/ runtime[n].forwarder.present => records[n] # NoRecord

(* A Stop that reports success has taken the sandbox's host ports and its  *)
(* relay away with it (direct.Stop, OCI.Stop).                             *)
StopTakesPortsOff ==
  [][\A r \in Requests : Finishes(r, "stop") =>
       LET left == runtime'[Name(r)] IN
       /\ left.container # "running"
       /\ left.relay = "none"
       /\ ~left.forwarder.present]_vars

(* A Remove that reports success has deleted the sandbox and everything in *)
(* it, whatever state earlier calls that failed had left it in             *)
(* (direct.Remove, OCI.Remove).                                            *)
RemoveLeavesNothing ==
  [][\A r \in Requests : Finishes(r, "remove") =>
       /\ runtime'[Name(r)] = Nothing
       /\ records'[Name(r)] = NoRecord]_vars

(* A Start that reports success leaves the sandbox with a route out through *)
(* a relay attached to its network, and with a forwarder carrying exactly   *)
(* the ports of its record, whatever an earlier failed start left behind    *)
(* (direct.Start, OCI.ensureRelay, OCI.Publish).                            *)
StartDelivers ==
  [][\A r \in Requests : Finishes(r, "start") =>
       LET given == runtime'[Name(r)]
           ports == records'[Name(r)].ports
       IN
       /\ given.container = "running" \/ "exit" \in Faults
       /\ Egress => given.relay = "attached"
       /\ given.forwarder.ports = ports
       /\ given.forwarder.attached <=> ports # {}]_vars

(* A Publish that reports success on a sandbox recorded as running, and     *)
(* still so, has brought the forwarder into line with the record            *)
(* (direct.Publish: the fallback of observe reads the recorded status).     *)
PublishDelivers ==
  [][\A r \in Requests :
       LET now == runtime'[Name(r)]
           sb  == records'[Name(r)]
       IN Finishes(r, "publish") /\ now.container = "running" /\ sb.status = "running" =>
            /\ now.forwarder.ports = sb.ports
            /\ now.forwarder.attached <=> sb.ports # {}]_vars

(* No sandbox's container exists before a policy has been written, so the   *)
(* proxy never enforces one that `plbx policy` does not report              *)
(* (direct.Create).                                                         *)
PolicySettled == \A n \in Names : runtime[n].container # "none" => policy # "none"

(* A container that is running is removed only under --force, even when it  *)
(* was started between Remove's own check and its `rm` (direct.Remove).     *)
RunningNeedsForce ==
  [][\A n \in Names :
       runtime[n].container = "running" /\ runtime'[n].container = "none" =>
         \E r \in Requests : Name(r) = n /\ requests[r].op = "remove" /\ requests[r].force]_vars

(* A container's network and home volume are there as long as it is:        *)
(* without them the runtime will not start it again (OCI.Create makes the   *)
(* network first and OCI.Remove removes it last).                           *)
ContainerHasNetwork ==
  \A n \in Names : runtime[n].container # "none" => runtime[n].network /\ runtime[n].volume

(* What an agent has done in a whole clone goes with its sandbox and no     *)
(* sooner: no start, however earlier ones were cut short, makes the clone   *)
(* again (clone.go: "restarting never discards work").                      *)
CloneKept ==
  [][\A n \in Names : runtime[n].clone = "whole" /\ runtime'[n].clone # "whole" =>
       /\ runtime[n].container = "none"
       /\ \E r \in Requests : Name(r) = n /\ requests[r].op = "remove"]_vars

(* A container no record leads to, as a Create that fails may leave, has    *)
(* never run and holds no work: what was started keeps its record until it  *)
(* is gone, whatever fails on the way (direct.Create, direct.Remove).       *)
OrphansNeverRan ==
  \A n \in Names :
    records[n] = NoRecord =>
      runtime[n].container \in {"none", "created"} /\ runtime[n].clone = "none"

(* Between calls, the host repository has a remote for exactly the clone    *)
(* sandboxes that exist (direct.addHostRemote, direct.dropHostRemote).      *)
RemotesMatchRecords ==
  \A n \in Names :
    (\A r \in Requests : Name(r) # n) =>
      (n \in remotes <=> n \in Clones /\ records[n] # NoRecord)

(* Seen from outside, the service is a catalogue of port sets and of the    *)
(* host ports held for them.                                                *)
Promise == INSTANCE Catalogue WITH
  Unknown <- NoRecord,
  wanted  <- [n \in Names |-> IF records[n] = NoRecord THEN NoRecord ELSE records[n].ports],
  held    <- [n \in Names |-> runtime[n].forwarder.ports]

(* The service keeps the catalogue's promise (direct over store and runner). *)
KeepsPromise == Promise!Spec
=============================================================================
