--------------------------- MODULE SandboxesProofs ---------------------------
(***************************************************************************)
(* Safety of the sandbox service, for any sandboxes, ports and number of   *)
(* calls in flight, and any of the faults: its types, what holds of the    *)
(* sidecars when clients take turns, and that it then implements the       *)
(* Catalogue and delivers what a call that succeeds has promised.          *)
(***************************************************************************)
EXTENDS Sandboxes, TLAPS

-----------------------------------------------------------------------------
(* How calls move                                                          *)

(* Fields of a call that has begun. *)
LEMMA CallFields ==
  ASSUME NEW call \in Request
  PROVE  /\ call.op \in Operations \cup {"none"}
         /\ call.name \in Names \cup {NoName}
         /\ call.pc \in LabelsOf(call.op)
         /\ call.snap \in Record \cup {NoRecord}
         /\ call.ports \in SUBSET Ports
         /\ call.force \in BOOLEAN
         /\ call.op # "none" => call.name \in Names
         /\ call.op \in {"start", "stop", "remove", "publish"} /\ call.pc # "find" =>
              call.snap \in Record
  BY DEF Request

(* A label tells which operations may be there. *)
LEMMA LabelTells ==
  ASSUME NEW call \in Request
  PROVE  /\ call.op = "none" <=> call.pc = "resting"
         /\ call.pc \in {"checkName", "readPolicy", "writePolicy", "makeNetwork",
                         "createContainer", "putNew", "addRemote"} <=> call.op = "create"
         /\ call.pc \in {"runRelay", "attachRelay", "startContainer", "makeClone",
                         "finishClone"} =>
              call.op = "start"
         /\ call.pc = "stopContainer" => call.op = "stop"
         /\ call.pc \in {"rmContainer", "rmVolume", "rmNetwork", "dropRemote", "deleteRecord"} =>
              call.op = "remove"
         /\ call.pc = "putPorts" => call.op = "publish"
         /\ call.pc = "putState" => call.op \in {"start", "stop"}
         /\ call.pc = "dropRelay" => call.op \in {"start", "stop", "remove"}
         /\ call.pc \in {"runForwarder", "dropForwarder", "attachForwarder"} =>
              call.op \in {"start", "publish"}
         /\ call.pc \in {"find", "observe", "unpublish"} =>
              call.op \in {"start", "stop", "remove", "publish"}
  BY CallFields DEF LabelsOf, Operations

LEMMA LabelsAreLabels == \A op \in Operations \cup {"none"} : LabelsOf(op) \subseteq Labels
  BY DEF Labels

LEMMA RestingIsRequest == \A out \in {"none", "ok", "error"} : Resting(out) \in Request
  BY LabelsAreLabels DEF Resting, Request, LabelsOf, Operations

(* A call that has a record, or needs none, can go to any later label. *)
LEMMA Relabel ==
  ASSUME NEW call \in Request, call.pc # "find", call.op # "none",
         NEW label \in LabelsOf(call.op)
  PROVE  [call EXCEPT !.pc = label] \in Request
  BY LabelsAreLabels DEF Request

(* A call may take another record for its own. *)
LEMMA Resnap ==
  ASSUME NEW call \in Request, call.op # "none", NEW snap \in Record,
         NEW label \in LabelsOf(call.op)
  PROVE  [call EXCEPT !.pc = label, !.snap = snap] \in Request
  BY LabelsAreLabels, NoRecordAssumption DEF Request

LEMMA GotoTypes ==
  ASSUME TypeOK, NEW r \in Requests, ~At(r, "find"), ~At(r, "resting"),
         NEW label \in LabelsOf(requests[r].op), Goto(r, label)
  PROVE  requests' \in [Requests -> Request]
  BY Relabel, LabelTells DEF TypeOK, Goto, At

LEMMA ReturnTypes ==
  ASSUME TypeOK, NEW r \in Requests, NEW out \in {"ok", "error"}, Return(r, out)
  PROVE  requests' \in [Requests -> Request]
  BY RestingIsRequest DEF TypeOK, Return

(* A runtime command leaves typed state behind it. *)
LEMMA CommandTypes ==
  ASSUME TypeOK, NEW r \in Requests, ~At(r, "find"), ~At(r, "resting"),
         NEW effect \in Objects, NEW label \in LabelsOf(requests[r].op) \cup {"return"},
         runtime' = [runtime EXCEPT ![Name(r)] = effect] \/ UNCHANGED runtime,
         Proceed(r, label) \/ Return(r, "error"),
         UNCHANGED <<records, policy, remotes>>
  PROVE  TypeOK'
<1>1. requests' \in [Requests -> Request]
  BY GotoTypes, ReturnTypes DEF Proceed
<1>2. runtime' \in [Names -> Objects]
  BY DEF TypeOK
<1>3. QED
  BY <1>1, <1>2 DEF TypeOK

LEMMA CallInFlight ==
  ASSUME TypeOK, NEW r \in Requests, ~At(r, "resting")
  PROVE  /\ requests[r] \in Request
         /\ requests[r].op # "none"
         /\ Name(r) \in Names
         /\ Mine(r) \in Objects
  BY LabelTells, CallFields DEF TypeOK, At, Name, Mine

-----------------------------------------------------------------------------
(* Types                                                                   *)

LEMMA InitTypes == Init => TypeOK
  BY RestingIsRequest
  DEF Init, TypeOK, Objects, Nothing, NoForwarder, Forwarder

LEMMA CreateTypes ==
  ASSUME TypeOK, NEW r \in Requests,
         \/ CheckName(r) \/ ReadPolicy(r) \/ WritePolicy(r) \/ MakeNetwork(r)
         \/ CreateContainer(r) \/ PutNew(r) \/ AddRemote(r)
  PROVE  TypeOK'
<1>1. requests[r].op = "create" /\ ~At(r, "find") /\ ~At(r, "resting")
  BY LabelTells
  DEF TypeOK, At, CheckName, ReadPolicy, WritePolicy, MakeNetwork, CreateContainer, PutNew,
      AddRemote
<1>2. /\ Name(r) \in Names /\ Mine(r) \in Objects
      /\ {"readPolicy", "writePolicy", "makeNetwork", "createContainer", "putNew", "addRemote"}
           \subseteq LabelsOf(requests[r].op)
  BY <1>1, CallInFlight DEF LabelsOf
<1>3. CASE CheckName(r)
  BY <1>1, <1>2, <1>3, GotoTypes, ReturnTypes DEF CheckName, TypeOK
<1>4. CASE ReadPolicy(r)
  BY <1>1, <1>2, <1>4, GotoTypes DEF ReadPolicy, TypeOK
<1>5. CASE WritePolicy(r)
  BY <1>1, <1>2, <1>5, GotoTypes, ReturnTypes DEF WritePolicy, TypeOK
<1>6. CASE MakeNetwork(r)
  <2>1. [Mine(r) EXCEPT !.network = TRUE] \in Objects
    BY <1>2 DEF Objects
  <2>2. QED
    BY <1>1, <1>2, <1>6, <2>1, CommandTypes DEF MakeNetwork, Command
<1>7. CASE CreateContainer(r)
  <2>1. [Mine(r) EXCEPT !.container = "created", !.volume = TRUE] \in Objects
    BY <1>2 DEF Objects
  <2>2. QED
    BY <1>1, <1>2, <1>7, <2>1, CommandTypes DEF CreateContainer, Command
<1>8. CASE PutNew(r)
  BY <1>1, <1>2, <1>8, GotoTypes, ReturnTypes
  DEF PutNew, Put, Proceed, TypeOK, Record, Statuses
<1>9. CASE AddRemote(r)
  BY <1>1, <1>2, <1>9, ReturnTypes DEF AddRemote, TypeOK
<1>10. QED
  BY <1>3, <1>4, <1>5, <1>6, <1>7, <1>8, <1>9
LEMMA RecordTypes ==
  ASSUME TypeOK, NEW r \in Requests,
         \/ Find(r) \/ Observe(r) \/ PutState(r) \/ PutPorts(r) \/ DropRemote(r)
         \/ DeleteRecord(r)
  PROVE  TypeOK'
<1>1. ~At(r, "resting")
  BY DEF At, Find, Observe, PutState, PutPorts, DropRemote, DeleteRecord
<1>2. requests[r] \in Request /\ Name(r) \in Names /\ Mine(r) \in Objects
  BY <1>1, CallInFlight
<1>3. CASE Find(r)
  <2>1. requests[r].op \in {"start", "stop", "remove", "publish"}
    BY <1>2, <1>3, LabelTells DEF Find, At
  <2>2. FirstCall(r) \in LabelsOf(requests[r].op)
    BY <2>1 DEF FirstCall, LabelsOf
  <2>3. CASE records[Name(r)] = NoRecord
    BY <1>3, <2>3, ReturnTypes DEF Find, TypeOK
  <2>4. CASE records[Name(r)] # NoRecord
    <3>1. records[Name(r)] \in Record
      BY <1>2, <2>4 DEF TypeOK
    <3>2. [requests[r] EXCEPT !.pc = FirstCall(r), !.snap = records[Name(r)]] \in Request
      BY <1>2, <2>1, <2>2, <3>1, Resnap
    <3>3. QED
      BY <1>3, <2>4, <3>2 DEF Find, TypeOK
  <2>5. QED
    BY <2>3, <2>4
<1>4. CASE Observe(r)
  <2>1. requests[r].op \in {"start", "stop", "remove", "publish"} /\ ~At(r, "find")
    BY <1>2, <1>4, LabelTells DEF Observe, At
  <2>2. requests[r].snap \in Record
    BY <1>2, <2>1, CallFields DEF At
  <2>3. UNCHANGED <<records, policy, runtime, remotes>>
    BY <1>4 DEF Observe
  <2>4. CASE requests[r].op \in {"start", "stop"}
    <3>1. PICK status \in Observed(r) :
            requests' = [requests EXCEPT ![r].pc = "putState", ![r].snap.status = status]
      BY <1>4, <2>4 DEF Observe
    <3>2. status \in Statuses
      BY <1>2, <2>2 DEF Observed, Objects, Statuses, Record
    <3>3. [requests[r].snap EXCEPT !.status = status] \in Record
      BY <2>2, <3>2 DEF Record
    <3>4. "putState" \in LabelsOf(requests[r].op)
      BY <2>4 DEF LabelsOf
    <3>5. [requests[r] EXCEPT !.pc = "putState",
                              !.snap = [requests[r].snap EXCEPT !.status = status]] \in Request
      BY <1>2, <2>4, <3>3, <3>4, Resnap
    <3>6. QED
      BY <2>3, <3>1, <3>5 DEF TypeOK
  <2>5. CASE requests[r].op = "publish"
    <3>1. "unpublish" \in LabelsOf(requests[r].op)
      BY <2>5 DEF LabelsOf
    <3>2. QED
      BY <1>1, <1>4, <2>1, <2>3, <2>5, <3>1, GotoTypes, ReturnTypes DEF Observe, Proceed, TypeOK
  <2>6. CASE requests[r].op = "remove"
    <3>1. "rmContainer" \in LabelsOf(requests[r].op)
      BY <2>6 DEF LabelsOf
    <3>2. QED
      BY <1>1, <1>4, <2>1, <2>3, <2>6, <3>1, GotoTypes, ReturnTypes DEF Observe, TypeOK
  <2>7. QED
    BY <2>1, <2>4, <2>5, <2>6
<1>5. CASE PutState(r)
  <2>1. requests[r].op \in {"start", "stop"} /\ ~At(r, "find")
    BY <1>2, <1>5, LabelTells DEF PutState, At
  <2>2. requests[r].snap \in Record
    BY <1>2, <2>1, CallFields DEF At
  <2>3. requests[r].op = "start" => "makeClone" \in LabelsOf(requests[r].op)
    BY DEF LabelsOf
  <2>4. QED
    BY <1>1, <1>2, <1>5, <2>1, <2>2, <2>3, GotoTypes, ReturnTypes DEF PutState, Put, Proceed, TypeOK
<1>6. CASE PutPorts(r)
  <2>1. requests[r].op = "publish" /\ ~At(r, "find")
    BY <1>2, <1>6, LabelTells DEF PutPorts, At
  <2>2. [requests[r].snap EXCEPT !.ports = requests[r].ports] \in Record
    BY <1>2, <2>1, CallFields DEF At, Record
  <2>3. [requests[r] EXCEPT !.pc = "observe",
                            !.snap = [requests[r].snap EXCEPT !.ports = requests[r].ports]]
          \in Request
    BY <1>2, <2>1, <2>2, Resnap DEF LabelsOf
  <2>4. CASE requests' = [requests EXCEPT ![r].pc = "observe",
                                          ![r].snap.ports = requests[r].ports]
    <3>1. requests' = [requests EXCEPT ![r] =
                         [requests[r] EXCEPT !.pc = "observe",
                            !.snap = [requests[r].snap EXCEPT !.ports = requests[r].ports]]]
      BY <2>4, <1>2 DEF TypeOK
    <3>2. requests' \in [Requests -> Request]
      BY <3>1, <2>3 DEF TypeOK
    <3>3. QED
      BY <1>2, <1>6, <2>2, <3>2 DEF PutPorts, TypeOK
  <2>5. CASE Return(r, "error")
    BY <1>2, <1>6, <2>2, <2>5, ReturnTypes DEF PutPorts, TypeOK
  <2>6. QED
    BY <1>6, <2>4, <2>5 DEF PutPorts
<1>7. CASE DropRemote(r)
  <2>1. "deleteRecord" \in LabelsOf(requests[r].op) /\ ~At(r, "find")
    BY <1>2, <1>7, LabelTells DEF DropRemote, At, LabelsOf
  <2>2. QED
    BY <1>1, <1>7, <2>1, GotoTypes DEF DropRemote, TypeOK
<1>8. CASE DeleteRecord(r)
  BY <1>2, <1>8, ReturnTypes DEF DeleteRecord, TypeOK
<1>9. QED
  BY <1>3, <1>4, <1>5, <1>6, <1>7, <1>8

LEMMA RunningTypes ==
  ASSUME TypeOK, NEW r \in Requests,
         \/ DropRelay(r) \/ RunRelay(r) \/ AttachRelay(r) \/ StartContainer(r)
         \/ MakeClone(r) \/ FinishClone(r) \/ StopContainer(r)
  PROVE  TypeOK'
<1>1. /\ requests[r] \in Request /\ Name(r) \in Names /\ Mine(r) \in Objects
      /\ ~At(r, "find") /\ ~At(r, "resting")
  BY CallInFlight
  DEF At, DropRelay, RunRelay, AttachRelay, StartContainer, MakeClone, FinishClone, StopContainer
<1>2. CASE DropRelay(r)
  <2>1. [Mine(r) EXCEPT !.relay = "none"] \in Objects
    BY <1>1 DEF Objects, Forwarder, NoForwarder
  <2>2. {CASE requests[r].op = "start"  -> "runRelay"
          [] requests[r].op = "stop"   -> "observe"
          [] requests[r].op = "remove" -> "rmNetwork"} \subseteq LabelsOf(requests[r].op) \cup {"return"}
    BY <1>2, <1>1, LabelTells DEF DropRelay, At, LabelsOf
  <2>3. QED
    BY <1>1, <1>2, <2>1, <2>2, CommandTypes DEF DropRelay, Command
<1>3. CASE RunRelay(r)
  <2>1. [Mine(r) EXCEPT !.relay = "detached"] \in Objects
    BY <1>1 DEF Objects, Forwarder, NoForwarder
  <2>2. {"attachRelay"} \subseteq LabelsOf(requests[r].op) \cup {"return"}
    BY <1>3, <1>1, LabelTells DEF RunRelay, At, LabelsOf
  <2>3. QED
    BY <1>1, <1>3, <2>1, <2>2, CommandTypes DEF RunRelay, Command
<1>4. CASE AttachRelay(r)
  <2>1. [Mine(r) EXCEPT !.relay = "attached"] \in Objects
    BY <1>1 DEF Objects, Forwarder, NoForwarder
  <2>2. {"startContainer"} \subseteq LabelsOf(requests[r].op) \cup {"return"}
    BY <1>4, <1>1, LabelTells DEF AttachRelay, At, LabelsOf
  <2>3. QED
    BY <1>1, <1>4, <2>1, <2>2, CommandTypes DEF AttachRelay, Command
<1>5. CASE StartContainer(r)
  <2>1. [Mine(r) EXCEPT !.container = "running"] \in Objects
    BY <1>1 DEF Objects, Forwarder, NoForwarder
  <2>2. {"observe"} \subseteq LabelsOf(requests[r].op) \cup {"return"}
    BY <1>5, <1>1, LabelTells DEF StartContainer, At, LabelsOf
  <2>3. QED
    BY <1>1, <1>5, <2>1, <2>2, CommandTypes DEF StartContainer, Command
<1>6. CASE MakeClone(r) \/ FinishClone(r)
  <2>1. {"unpublish", "finishClone"} \subseteq LabelsOf(requests[r].op)
    BY <1>1, <1>6, LabelTells DEF MakeClone, FinishClone, At, LabelsOf
  <2>2. runtime' \in [Names -> Objects]
    <3>1. \A clone \in {"none", "partial", "whole"} :
            [Mine(r) EXCEPT !.clone = clone] \in Objects
      BY <1>1 DEF Objects
    <3>2. Mine(r).clone \in {"none", "partial", "whole"}
      BY <1>1 DEF Objects
    <3>3. QED
      BY <1>1, <1>6, <3>1, <3>2 DEF MakeClone, FinishClone, TypeOK, Mine
  <2>3. QED
    BY <1>1, <1>6, <2>1, <2>2, GotoTypes, ReturnTypes DEF MakeClone, FinishClone, TypeOK
<1>7. CASE StopContainer(r)
  <2>1. [Mine(r) EXCEPT !.container = IF @ = "running" THEN "stopped" ELSE @] \in Objects
    BY <1>1 DEF Objects, Forwarder, NoForwarder
  <2>2. {"unpublish"} \subseteq LabelsOf(requests[r].op) \cup {"return"}
    BY <1>7, <1>1, LabelTells DEF StopContainer, At, LabelsOf
  <2>3. QED
    BY <1>1, <1>7, <2>1, <2>2, CommandTypes DEF StopContainer, Command
<1>8. QED
  BY <1>2, <1>3, <1>4, <1>5, <1>6, <1>7

LEMMA ForwarderTypes ==
  ASSUME TypeOK, NEW r \in Requests,
         Unpublish(r) \/ RunForwarder(r) \/ DropForwarder(r) \/ AttachForwarder(r)
  PROVE  TypeOK'
<1>1. /\ requests[r] \in Request /\ Name(r) \in Names /\ Mine(r) \in Objects
      /\ ~At(r, "find") /\ ~At(r, "resting")
  BY CallInFlight DEF At, Unpublish, RunForwarder, DropForwarder, AttachForwarder
<1>2. CASE Unpublish(r)
  <2>1. [Mine(r) EXCEPT !.forwarder = NoForwarder] \in Objects
    BY <1>1 DEF Objects, Forwarder, NoForwarder
  <2>2. {CASE requests[r].op \in {"stop", "remove"} -> "dropRelay"
          [] requests[r].op \in {"start", "publish"} ->
               IF requests[r].snap.ports = {} THEN "return" ELSE "runForwarder"} \subseteq LabelsOf(requests[r].op) \cup {"return"}
    BY <1>2, <1>1, LabelTells DEF Unpublish, At, LabelsOf
  <2>3. QED
    BY <1>1, <1>2, <2>1, <2>2, CommandTypes DEF Unpublish, Command
<1>3. CASE RunForwarder(r)
  <2>1. requests[r].op \in {"start", "publish"}
    BY <1>1, <1>3, LabelTells DEF RunForwarder, At
  <2>2. requests[r].snap.ports \in SUBSET Ports
    BY <1>1, <2>1, CallFields DEF At, Record
  <2>3. {"attachForwarder", "dropForwarder"} \subseteq LabelsOf(requests[r].op)
    BY <2>1 DEF LabelsOf
  <2>4. \A forwarder \in Forwarder : [Mine(r) EXCEPT !.forwarder = forwarder] \in Objects
    BY <1>1 DEF Objects
  <2>5. /\ Mine(r).forwarder \in Forwarder /\ DeadForwarder \in Forwarder
        /\ [present |-> TRUE, ports |-> requests[r].snap.ports, attached |-> FALSE] \in Forwarder
    BY <1>1, <2>2 DEF Objects, Forwarder, DeadForwarder
  <2>6. runtime' \in [Names -> Objects]
    BY <1>1, <1>3, <2>4, <2>5 DEF RunForwarder, TypeOK, Mine
  <2>7. QED
    BY <1>1, <1>3, <2>3, <2>6, GotoTypes DEF RunForwarder, TypeOK
<1>4. CASE DropForwarder(r)
  <2>1. [Mine(r) EXCEPT !.forwarder = NoForwarder] \in Objects
    BY <1>1 DEF Objects, Forwarder, NoForwarder
  <2>2. runtime' \in [Names -> Objects]
    BY <1>1, <1>4, <2>1 DEF DropForwarder, TypeOK, Mine
  <2>3. QED
    BY <1>4, <2>2, ReturnTypes DEF DropForwarder, TypeOK
<1>5. CASE AttachForwarder(r)
  <2>1. [Mine(r) EXCEPT !.forwarder.attached = TRUE] \in Objects
    BY <1>1 DEF Objects, Forwarder, NoForwarder
  <2>2. {"return"} \subseteq LabelsOf(requests[r].op) \cup {"return"}
    BY <1>5, <1>1, LabelTells DEF AttachForwarder, At, LabelsOf
  <2>3. QED
    BY <1>1, <1>5, <2>1, <2>2, CommandTypes DEF AttachForwarder, Command
<1>6. QED
  BY <1>2, <1>3, <1>4, <1>5

LEMMA RemoveTypes ==
  ASSUME TypeOK, NEW r \in Requests, RmContainer(r) \/ RmVolume(r) \/ RmNetwork(r)
  PROVE  TypeOK'
<1>1. /\ requests[r] \in Request /\ Name(r) \in Names /\ Mine(r) \in Objects
      /\ ~At(r, "find") /\ ~At(r, "resting")
  BY CallInFlight DEF At, RmContainer, RmVolume, RmNetwork
<1>2. CASE RmContainer(r)
  <2>1. [Mine(r) EXCEPT !.container = "none"] \in Objects
    BY <1>1 DEF Objects, Forwarder, NoForwarder
  <2>2. {"rmVolume"} \subseteq LabelsOf(requests[r].op) \cup {"return"}
    BY <1>2, <1>1, LabelTells DEF RmContainer, At, LabelsOf
  <2>3. QED
    BY <1>1, <1>2, <2>1, <2>2, CommandTypes DEF RmContainer, Command
<1>3. CASE RmVolume(r)
  <2>1. [Mine(r) EXCEPT !.volume = FALSE, !.clone = "none"] \in Objects
    BY <1>1 DEF Objects, Forwarder, NoForwarder
  <2>2. {"unpublish"} \subseteq LabelsOf(requests[r].op) \cup {"return"}
    BY <1>3, <1>1, LabelTells DEF RmVolume, At, LabelsOf
  <2>3. QED
    BY <1>1, <1>3, <2>1, <2>2, CommandTypes DEF RmVolume, Command
<1>4. CASE RmNetwork(r)
  <2>1. [Mine(r) EXCEPT !.network = FALSE] \in Objects
    BY <1>1 DEF Objects, Forwarder, NoForwarder
  <2>2. {"dropRemote"} \subseteq LabelsOf(requests[r].op) \cup {"return"}
    BY <1>4, <1>1, LabelTells DEF RmNetwork, At, LabelsOf
  <2>3. QED
    BY <1>1, <1>4, <2>1, <2>2, CommandTypes DEF RmNetwork, Command
<1>5. QED
  BY <1>2, <1>3, <1>4

LEMMA BeginTypes ==
  ASSUME TypeOK, NEW r \in Requests, NEW op \in Operations, NEW n \in Names,
         NEW ports \in SUBSET Ports, NEW force \in BOOLEAN, Begin(r, op, n, ports, force)
  PROVE  TypeOK'
<1> DEFINE call ==
      [op |-> op, name |-> n, pc |-> IF op = "create" THEN "checkName" ELSE "find",
       snap |-> NoRecord, ports |-> ports, force |-> force, out |-> "none"]
<1>1. call.pc \in LabelsOf(op) /\ call.pc \in Labels
  BY LabelsAreLabels DEF LabelsOf, Operations
<1>2. n # NoName
  BY ConstantsAssumption
<1>3. call \in Request
  BY <1>1, <1>2 DEF Request, Operations
<1>4. QED
  BY <1>3 DEF Begin, TypeOK

LEMMA TypesPreserved == TypeOK /\ [Next]_vars => TypeOK'
<1> SUFFICES ASSUME TypeOK, [Next]_vars PROVE TypeOK'
  OBVIOUS
<1>1. ASSUME NEW r \in Requests, Call(r) PROVE TypeOK'
  BY <1>1, BeginTypes DEF Call, Operations
<1>2. ASSUME NEW r \in Requests, Step(r) PROVE TypeOK'
  BY <1>2, CreateTypes, RecordTypes, RunningTypes, ForwarderTypes, RemoveTypes DEF Step
<1>3. CASE SetPolicy
  BY <1>3 DEF SetPolicy, TypeOK
<1>4. ASSUME NEW n \in Names, ContainerExits(n) PROVE TypeOK'
  <2>1. [runtime[n] EXCEPT !.container = "stopped"] \in Objects
    BY DEF TypeOK, Objects
  <2>2. QED
    BY <1>4, <2>1 DEF ContainerExits, TypeOK
<1>5. CASE DaemonDies
  BY <1>5, RestingIsRequest DEF DaemonDies, TypeOK
<1>6. CASE UNCHANGED vars
  BY <1>6 DEF vars, TypeOK
<1>7. QED
  BY <1>1, <1>2, <1>3, <1>4, <1>5, <1>6 DEF Next

(* Whatever overlaps and whatever fails, every record, runtime object and  *)
(* call is one the program has: each call is at a label of its own handler *)
(* and, past its find, has a record to write back.                         *)
THEOREM TypeCorrect == Spec => []TypeOK
  BY InitTypes, TypesPreserved, PTL DEF Spec

-----------------------------------------------------------------------------
(* What a step touches                                                     *)

LEMMA GotoKeeps ==
  ASSUME TypeOK, NEW r \in Requests, NEW label, Goto(r, label)
  PROVE  /\ requests'[r].pc = label
         /\ requests'[r].op = requests[r].op
         /\ requests'[r].name = requests[r].name
         /\ requests'[r].snap = requests[r].snap
         /\ requests'[r].force = requests[r].force
         /\ \A q \in Requests \ {r} : requests'[q] = requests[q]
<1>1. requests[r] \in Request
  BY DEF TypeOK
<1>2. [requests[r] EXCEPT !.pc = label].pc = label
  BY <1>1 DEF Request
<1>3. QED
  BY <1>1, <1>2 DEF Goto, TypeOK

LEMMA ReturnRests ==
  ASSUME TypeOK, NEW r \in Requests, NEW out, Return(r, out)
  PROVE  /\ requests'[r].pc = "resting"
         /\ requests'[r].op = "none"
         /\ requests'[r].name = NoName
         /\ requests'[r].out = out
         /\ \A q \in Requests \ {r} : requests'[q] = requests[q]
  BY DEF Return, Resting, TypeOK

LEMMA ProceedEither ==
  ASSUME NEW r \in Requests, NEW label, Proceed(r, label)
  PROVE  Goto(r, label) \/ Return(r, "ok")
  BY DEF Proceed

(* A step is its own call's: that call keeps its operation and sandbox, or *)
(* rests.                                                                  *)
LEMMA StepOfCall ==
  ASSUME TypeOK, NEW r \in Requests, Step(r)
  PROVE  /\ ~At(r, "resting")
         /\ \A q \in Requests \ {r} : requests'[q] = requests[q]
         /\ \/ requests'[r].pc = "resting" /\ requests'[r].name = NoName
            \/ /\ requests'[r].op = requests[r].op
               /\ requests'[r].name = requests[r].name
               /\ requests'[r].force = requests[r].force
<1>1. ~At(r, "resting")
  BY DEF At, Step, CheckName, ReadPolicy, WritePolicy, MakeNetwork, CreateContainer, PutNew,
     AddRemote, Find, Observe, PutState, DropRelay, RunRelay, AttachRelay, StartContainer,
     MakeClone, FinishClone, StopContainer, PutPorts, Unpublish, RunForwarder, DropForwarder,
     AttachForwarder, RmContainer, RmVolume, RmNetwork, DropRemote, DeleteRecord
<1>2. CASE \/ \E label : Goto(r, label) \/ Proceed(r, label)
           \/ \E out : Return(r, out)
  BY <1>1, <1>2, GotoKeeps, ReturnRests, ProceedEither
<1>3. CASE Find(r)
  BY <1>1, <1>2, <1>3 DEF Find, TypeOK, Request
<1>4. CASE Observe(r)
  <2>1. requests[r] \in Request
    BY DEF TypeOK
  <2>2. requests[r].op \in {"start", "stop", "publish", "remove"}
    BY <1>4, <2>1, LabelTells DEF Observe, At
  <2>3. CASE requests[r].op \in {"start", "stop"}
    <3>1. PICK status :
            requests' = [requests EXCEPT ![r].pc = "putState", ![r].snap.status = status]
      BY <1>4, <2>3 DEF Observe
    <3>2. QED
      BY <1>1, <2>1, <3>1 DEF TypeOK, Request
  <2>4. CASE requests[r].op \in {"publish", "remove"}
    BY <1>2, <1>4, <2>4 DEF Observe
  <2>5. QED
    BY <2>2, <2>3, <2>4
<1>5. CASE PutPorts(r)
  BY <1>1, <1>2, <1>5 DEF PutPorts, TypeOK, Request
<1>6. CASE Step(r) /\ ~Find(r) /\ ~Observe(r) /\ ~PutPorts(r)
  <2>1. \/ \E label : Goto(r, label) \/ Proceed(r, label)
        \/ \E out : Return(r, out)
    BY <1>6
    DEF Step, Command, Put, CheckName, ReadPolicy, WritePolicy, MakeNetwork, CreateContainer,
        PutNew, AddRemote, PutState, DropRelay, RunRelay, AttachRelay, StartContainer,
        MakeClone,
        FinishClone, StopContainer, Unpublish, RunForwarder, DropForwarder, AttachForwarder,
        RmContainer, RmVolume, RmNetwork, DropRemote, DeleteRecord
  <2>2. QED
    BY <1>2, <2>1
<1>7. QED
  BY <1>3, <1>4, <1>5, <1>6

(* A step touches nothing of another sandbox. *)
LEMMA StepOfSandbox ==
  ASSUME TypeOK, NEW r \in Requests, Step(r), NEW n \in Names \ {Name(r)}
  PROVE  runtime'[n] = runtime[n] /\ records'[n] = records[n]
<1> USE DEF TypeOK, Command, Put
<1>1. CASE \/ CheckName(r) \/ ReadPolicy(r) \/ WritePolicy(r) \/ MakeNetwork(r)
           \/ CreateContainer(r) \/ PutNew(r) \/ AddRemote(r)
  BY <1>1 DEF CheckName, ReadPolicy, WritePolicy, MakeNetwork, CreateContainer, PutNew,
     AddRemote
<1>2. CASE Find(r) \/ Observe(r) \/ PutState(r) \/ PutPorts(r) \/ DropRemote(r) \/ DeleteRecord(r)
  BY <1>2 DEF Find, Observe, PutState, PutPorts, DropRemote, DeleteRecord
<1>3. CASE \/ DropRelay(r) \/ RunRelay(r) \/ AttachRelay(r) \/ StartContainer(r)
           \/ MakeClone(r) \/ FinishClone(r) \/ StopContainer(r)
  BY <1>3 DEF DropRelay, RunRelay, AttachRelay, StartContainer, MakeClone,
     FinishClone, StopContainer
<1>4. CASE Unpublish(r) \/ RunForwarder(r) \/ DropForwarder(r) \/ AttachForwarder(r)
  BY <1>4 DEF Unpublish, RunForwarder, DropForwarder, AttachForwarder
<1>5. CASE RmContainer(r) \/ RmVolume(r) \/ RmNetwork(r)
  BY <1>5 DEF RmContainer, RmVolume, RmNetwork
<1>6. QED
  BY <1>1, <1>2, <1>3, <1>4, <1>5 DEF Step

-----------------------------------------------------------------------------
(* The policy                                                              *)

(* A Create that is past its settlePolicy has found or made a policy, and  *)
(* no call takes one away.                                                 *)
Settled ==
  /\ TypeOK
  /\ PolicySettled
  /\ \A r \in Requests : At(r, "makeNetwork") \/ At(r, "createContainer") => policy # "none"

LEMMA PolicyStays == [Next]_vars => policy' = policy \/ policy' # "none"
<1> SUFFICES ASSUME [Next]_vars PROVE policy' = policy \/ policy' # "none"
  OBVIOUS
<1>1. ASSUME NEW r \in Requests, Call(r) PROVE UNCHANGED policy
  BY <1>1 DEF Call, Begin
<1>2. ASSUME NEW r \in Requests, Step(r) PROVE policy' = policy \/ policy' # "none"
  <2>1. CASE WritePolicy(r)
    BY <2>1 DEF WritePolicy
  <2>2. CASE Step(r) /\ ~WritePolicy(r)
    BY <2>2
    DEF Step, Command, Put, CheckName, ReadPolicy, MakeNetwork, CreateContainer, PutNew,
        AddRemote, Find, Observe, PutState, DropRelay, RunRelay, AttachRelay, StartContainer,
        MakeClone, FinishClone, StopContainer, PutPorts, Unpublish, RunForwarder, DropForwarder,
        AttachForwarder, RmContainer, RmVolume, RmNetwork, DropRemote, DeleteRecord
  <2>3. QED
    BY <1>2, <2>1, <2>2
<1>3. QED
  BY <1>1, <1>2 DEF Next, SetPolicy, ContainerExits, DaemonDies, vars

(* Only a Create's own commands make a container. *)
LEMMA ContainersComeFromCreate ==
  ASSUME TypeOK, NEW r \in Requests, Step(r), NEW n \in Names,
         runtime[n].container = "none", runtime'[n].container # "none"
  PROVE  At(r, "createContainer")
<1>1. n = Name(r) /\ Mine(r) \in Objects
  BY StepOfSandbox, StepOfCall, CallInFlight
<1> USE <1>1 DEF TypeOK, Mine, Command, Objects
<1>2. CASE MakeNetwork(r)     BY <1>2 DEF MakeNetwork
<1>3. CASE CreateContainer(r) BY <1>3 DEF CreateContainer
<1>4. CASE DropRelay(r)       BY <1>4 DEF DropRelay
<1>5. CASE RunRelay(r)        BY <1>5 DEF RunRelay
<1>6. CASE AttachRelay(r)     BY <1>6 DEF AttachRelay
<1>7. CASE StartContainer(r)  BY <1>7 DEF StartContainer
<1>8. CASE MakeClone(r) \/ FinishClone(r)
  BY <1>8 DEF MakeClone, FinishClone
<1>9. CASE StopContainer(r)   BY <1>9 DEF StopContainer
<1>10. CASE Unpublish(r)      BY <1>10 DEF Unpublish
<1>11. CASE RunForwarder(r)   BY <1>11 DEF RunForwarder
<1>12. CASE DropForwarder(r)  BY <1>12 DEF DropForwarder
<1>13. CASE AttachForwarder(r) BY <1>13 DEF AttachForwarder
<1>14. CASE RmContainer(r)    BY <1>14 DEF RmContainer
<1>15. CASE RmVolume(r)       BY <1>15 DEF RmVolume
<1>16. CASE RmNetwork(r)      BY <1>16 DEF RmNetwork
<1>17. CASE \/ CheckName(r) \/ ReadPolicy(r) \/ WritePolicy(r) \/ PutNew(r) \/ AddRemote(r)
            \/ Find(r) \/ Observe(r) \/ PutState(r) \/ PutPorts(r) \/ DropRemote(r)
            \/ DeleteRecord(r)
  BY <1>17 DEF CheckName, ReadPolicy, WritePolicy, PutNew, AddRemote, Find, Observe, PutState,
     PutPorts, DropRemote, DeleteRecord, Put
<1>18. QED
  BY <1>2, <1>3, <1>4, <1>5, <1>6, <1>7, <1>8, <1>9, <1>10, <1>11, <1>12, <1>13, <1>14, <1>15,
     <1>16, <1>17 DEF Step

(* A call comes to its network only by having seen or written a policy. *)
LEMMA CreatesComeFromPolicy ==
  ASSUME TypeOK, NEW r \in Requests, Step(r),
         requests'[r].pc \in {"makeNetwork", "createContainer"}
  PROVE  At(r, "makeNetwork") \/ policy' # "none"
<1>1. requests[r] \in Request
  BY DEF TypeOK
<1>2. requests'[r].op = "create"
  <2>1. requests'[r] \in Request
    BY TypesPreserved DEF TypeOK, Next
  <2>2. QED
    BY <2>1, LabelTells
<1>3. requests[r].op = "create"
  BY <1>2, StepOfCall
<1>4. \/ CheckName(r) \/ ReadPolicy(r) \/ WritePolicy(r) \/ MakeNetwork(r)
      \/ CreateContainer(r) \/ PutNew(r) \/ AddRemote(r)
  BY <1>1, <1>3, LabelTells
  DEF Step, At, Find, Observe, PutState, DropRelay, RunRelay, AttachRelay, StartContainer,
      MakeClone, FinishClone, StopContainer, PutPorts, Unpublish, RunForwarder, DropForwarder,
      AttachForwarder, RmContainer, RmVolume, RmNetwork, DropRemote, DeleteRecord
<1>5. CASE ReadPolicy(r) \/ WritePolicy(r) \/ MakeNetwork(r)
  <2>1. CASE ReadPolicy(r)
    <3>1. requests'[r].pc = IF policy = "none" THEN "writePolicy" ELSE "makeNetwork"
      BY <2>1, GotoKeeps DEF ReadPolicy
    <3>2. QED
      BY <2>1, <3>1 DEF ReadPolicy
  <2>2. CASE WritePolicy(r)
    BY <2>2, ReturnRests DEF WritePolicy
  <2>3. CASE MakeNetwork(r)
    BY <2>3 DEF MakeNetwork
  <2>4. QED
    BY <1>5, <2>1, <2>2, <2>3
<1>6. CASE CheckName(r) \/ CreateContainer(r) \/ PutNew(r) \/ AddRemote(r)
  BY <1>6, GotoKeeps, ReturnRests
  DEF CheckName, CreateContainer, PutNew, AddRemote, Command, Put, Proceed
<1>7. QED
  BY <1>4, <1>5, <1>6

LEMMA SettledPreserved == Settled /\ [Next]_vars => Settled'
<1> SUFFICES ASSUME Settled, [Next]_vars PROVE Settled'
  OBVIOUS
<1>1. TypeOK /\ TypeOK'
  BY TypesPreserved DEF Settled
<1>2. policy' = policy \/ policy' # "none"
  BY PolicyStays
<1>3. ASSUME NEW r \in Requests, Call(r) PROVE Settled'
  <2>1. UNCHANGED <<policy, runtime>>
    BY <1>3 DEF Call, Begin
  <2>2. \A q \in Requests : requests'[q] = requests[q] \/ requests'[q].pc \in {"checkName", "find"}
    BY <1>1, <1>3 DEF Call, Begin, TypeOK
  <2>3. QED
    BY <1>1, <2>1, <2>2 DEF Settled, PolicySettled, At
<1>4. ASSUME NEW r \in Requests, Step(r) PROVE Settled'
  <2>1. \A q \in Requests :
          requests'[q].pc \in {"makeNetwork", "createContainer"} => policy' # "none"
    BY <1>1, <1>2, <1>4, CreatesComeFromPolicy, StepOfCall DEF Settled, At
  <2>2. ASSUME NEW n \in Names, runtime'[n].container # "none" PROVE policy' # "none"
    BY <1>1, <1>2, <1>4, <2>2, ContainersComeFromCreate DEF Settled, PolicySettled
  <2>3. QED
    BY <1>1, <2>1, <2>2 DEF Settled, PolicySettled, At
<1>5. CASE SetPolicy
  BY <1>1, <1>2, <1>5 DEF SetPolicy, Settled, PolicySettled, At
<1>6. ASSUME NEW n \in Names, ContainerExits(n) PROVE Settled'
  BY <1>1, <1>6 DEF ContainerExits, Settled, PolicySettled, At, TypeOK
<1>7. CASE DaemonDies
  BY <1>1, <1>7 DEF DaemonDies, Settled, PolicySettled, At, TypeOK, Resting
<1>8. CASE UNCHANGED vars
  BY <1>1, <1>8 DEF vars, Settled, PolicySettled, At
<1>9. QED
  BY <1>3, <1>4, <1>5, <1>6, <1>7, <1>8 DEF Next

(* Whatever overlaps and whatever fails, no sandbox's container exists      *)
(* before a policy has been written (direct.Create, direct.settlePolicy).   *)
THEOREM PolicyIsSettled == Spec => []PolicySettled
<1>1. Init => Settled
  BY InitTypes DEF Init, Settled, PolicySettled, Nothing, At, Resting
<1>2. Settled => PolicySettled
  BY DEF Settled
<1>3. QED
  BY <1>1, <1>2, SettledPreserved, PTL DEF Spec

-----------------------------------------------------------------------------
(* Removal by force                                                        *)

(* Only `rm` takes a container away. *)
LEMMA ContainersGoByRm ==
  ASSUME TypeOK, NEW r \in Requests, Step(r), NEW n \in Names,
         runtime[n].container = "running", runtime'[n].container = "none"
  PROVE  RmContainer(r) /\ n = Name(r)
<1>1. n = Name(r) /\ Mine(r) \in Objects
  BY StepOfSandbox, StepOfCall, CallInFlight
<1> USE <1>1 DEF TypeOK, Mine, Command, Objects
<1>2. CASE MakeNetwork(r)     BY <1>2 DEF MakeNetwork
<1>3. CASE CreateContainer(r) BY <1>3 DEF CreateContainer
<1>4. CASE DropRelay(r)       BY <1>4 DEF DropRelay
<1>5. CASE RunRelay(r)        BY <1>5 DEF RunRelay
<1>6. CASE AttachRelay(r)     BY <1>6 DEF AttachRelay
<1>7. CASE StartContainer(r)  BY <1>7 DEF StartContainer
<1>8. CASE MakeClone(r) \/ FinishClone(r)
  BY <1>8 DEF MakeClone, FinishClone
<1>9. CASE StopContainer(r)   BY <1>9 DEF StopContainer
<1>10. CASE Unpublish(r)      BY <1>10 DEF Unpublish
<1>11. CASE RunForwarder(r)   BY <1>11 DEF RunForwarder
<1>12. CASE DropForwarder(r)  BY <1>12 DEF DropForwarder
<1>13. CASE AttachForwarder(r) BY <1>13 DEF AttachForwarder
<1>14. CASE RmContainer(r)    BY <1>14
<1>15. CASE RmVolume(r)       BY <1>15 DEF RmVolume
<1>16. CASE RmNetwork(r)      BY <1>16 DEF RmNetwork
<1>17. CASE \/ CheckName(r) \/ ReadPolicy(r) \/ WritePolicy(r) \/ PutNew(r) \/ AddRemote(r)
            \/ Find(r) \/ Observe(r) \/ PutState(r) \/ PutPorts(r) \/ DropRemote(r)
            \/ DeleteRecord(r)
  BY <1>17 DEF CheckName, ReadPolicy, WritePolicy, PutNew, AddRemote, Find, Observe, PutState,
     PutPorts, DropRemote, DeleteRecord, Put
<1>18. QED
  BY <1>2, <1>3, <1>4, <1>5, <1>6, <1>7, <1>8, <1>9, <1>10, <1>11, <1>12, <1>13, <1>14, <1>15,
     <1>16, <1>17 DEF Step

(* A container that is running goes only under --force, whatever was       *)
(* started between Remove's own check and its `rm` (direct.Remove).        *)
THEOREM RunningGoesByForce == Spec => RunningNeedsForce
<1> DEFINE Forced ==
      \A n \in Names :
        runtime[n].container = "running" /\ runtime'[n].container = "none" =>
          \E r \in Requests : Name(r) = n /\ requests[r].op = "remove" /\ requests[r].force
<1>1. ASSUME TypeOK, [Next]_vars PROVE Forced
  <2> SUFFICES ASSUME NEW n \in Names,
                      runtime[n].container = "running", runtime'[n].container = "none"
               PROVE  \E r \in Requests :
                        Name(r) = n /\ requests[r].op = "remove" /\ requests[r].force
    OBVIOUS
  <2>1. PICK r \in Requests : Step(r)
    <3>1. ASSUME NEW m \in Names, ContainerExits(m) PROVE FALSE
      BY <1>1, <3>1 DEF ContainerExits, TypeOK, Objects
    <3>2. runtime' # runtime
      OBVIOUS
    <3>3. QED
      BY <1>1, <3>1, <3>2 DEF Next, Call, Begin, SetPolicy, DaemonDies, vars
  <2>2. RmContainer(r) /\ n = Name(r)
    BY <1>1, <2>1, ContainersGoByRm
  <2>3. requests[r].op = "remove"
    BY <1>1, <2>2, LabelTells DEF RmContainer, At, TypeOK
  <2>4. Mine(r).container = "running" => requests[r].force
    BY <2>2, <1>1 DEF RmContainer, Command, Mine, TypeOK
  <2>5. QED
    BY <2>2, <2>3, <2>4 DEF Mine
<1>2. TypeOK /\ [Next]_vars => [Forced]_vars
  BY <1>1
<1>3. QED
  BY <1>2, TypeCorrect, PTL DEF Spec, RunningNeedsForce

-----------------------------------------------------------------------------
(* Work in a clone                                                         *)

(* A whole clone goes with its volume.                                     *)
LEMMA ClonesGoByVolume ==
  ASSUME TypeOK, NEW r \in Requests, Step(r), NEW n \in Names,
         runtime[n].clone = "whole", runtime'[n].clone # "whole"
  PROVE  RmVolume(r) /\ n = Name(r)
<1>1. n = Name(r) /\ Mine(r) \in Objects
  BY StepOfSandbox, StepOfCall, CallInFlight
<1> USE <1>1 DEF TypeOK, Mine, Command, Objects
<1>2. CASE MakeNetwork(r)     BY <1>2 DEF MakeNetwork
<1>3. CASE CreateContainer(r)
  <2>1. \/ runtime'[n] = Mine(r)
        \/ runtime'[n] = [Mine(r) EXCEPT !.container = "created", !.volume = TRUE]
    BY <1>3 DEF CreateContainer
  <2>2. QED
    BY <2>1
<1>4. CASE DropRelay(r)       BY <1>4 DEF DropRelay
<1>5. CASE RunRelay(r)        BY <1>5 DEF RunRelay
<1>6. CASE AttachRelay(r)     BY <1>6 DEF AttachRelay
<1>7. CASE StartContainer(r)  BY <1>7 DEF StartContainer
<1>8. CASE MakeClone(r) \/ FinishClone(r)
  BY <1>8 DEF MakeClone, FinishClone
<1>9. CASE StopContainer(r)   BY <1>9 DEF StopContainer
<1>10. CASE Unpublish(r)      BY <1>10 DEF Unpublish
<1>11. CASE RunForwarder(r)   BY <1>11 DEF RunForwarder
<1>12. CASE DropForwarder(r)  BY <1>12 DEF DropForwarder
<1>13. CASE AttachForwarder(r) BY <1>13 DEF AttachForwarder
<1>14. CASE RmContainer(r)    BY <1>14 DEF RmContainer
<1>15. CASE RmVolume(r)       BY <1>15
<1>16. CASE RmNetwork(r)      BY <1>16 DEF RmNetwork
<1>17. CASE \/ CheckName(r) \/ ReadPolicy(r) \/ WritePolicy(r) \/ PutNew(r) \/ AddRemote(r)
            \/ Find(r) \/ Observe(r) \/ PutState(r) \/ PutPorts(r) \/ DropRemote(r)
            \/ DeleteRecord(r)
  BY <1>17 DEF CheckName, ReadPolicy, WritePolicy, PutNew, AddRemote, Find, Observe, PutState,
     PutPorts, DropRemote, DeleteRecord, Put
<1>18. QED
  BY <1>2, <1>3, <1>4, <1>5, <1>6, <1>7, <1>8, <1>9, <1>10, <1>11, <1>12, <1>13, <1>14, <1>15,
     <1>16, <1>17 DEF Step

(* What an agent has done in a whole clone goes only when its sandbox is    *)
(* removed, after its container: no start makes the clone again, however    *)
(* calls overlap and whatever fails (direct.ensureClone).                   *)
THEOREM ClonesAreKept == Spec => CloneKept
<1> DEFINE Kept ==
      \A n \in Names : runtime[n].clone = "whole" /\ runtime'[n].clone # "whole" =>
        /\ runtime[n].container = "none"
        /\ \E r \in Requests : Name(r) = n /\ requests[r].op = "remove"
<1>1. ASSUME TypeOK, [Next]_vars PROVE Kept
  <2> SUFFICES ASSUME NEW n \in Names, runtime[n].clone = "whole", runtime'[n].clone # "whole"
               PROVE  /\ runtime[n].container = "none"
                      /\ \E r \in Requests : Name(r) = n /\ requests[r].op = "remove"
    OBVIOUS
  <2>1. PICK r \in Requests : Step(r)
    <3>1. ASSUME NEW m \in Names, ContainerExits(m) PROVE FALSE
      BY <1>1, <3>1 DEF ContainerExits, TypeOK, Objects
    <3>2. runtime' # runtime
      OBVIOUS
    <3>3. QED
      BY <1>1, <3>1, <3>2 DEF Next, Call, Begin, SetPolicy, DaemonDies, vars
  <2>2. RmVolume(r) /\ n = Name(r)
    BY <1>1, <2>1, ClonesGoByVolume
  <2>3. requests[r].op = "remove"
    BY <1>1, <2>2, LabelTells DEF RmVolume, At, TypeOK
  <2>4. Mine(r).container = "none"
    BY <2>2, <1>1 DEF RmVolume, Command, Mine, TypeOK
  <2>5. QED
    BY <2>2, <2>3, <2>4 DEF Mine
<1>2. TypeOK /\ [Next]_vars => [Kept]_vars
  BY <1>1
<1>3. QED
  BY <1>2, TypeCorrect, PTL DEF Spec, CloneKept

-----------------------------------------------------------------------------
(* What holds of the sandbox service when clients take turns, for any      *)
(* sandboxes, ports and number of calls in flight, and any of the faults.  *)
(*                                                                         *)
(* The argument: with one call at a time on a sandbox, the record a call   *)
(* has found stays there until that call itself deletes it, and Remove     *)
(* gets as far as deleting it only by having seen the forwarder and the    *)
(* relay gone.                                                             *)

OneCallEach ==
  \A q, r \in Requests : q # r /\ Name(q) = Name(r) => At(q, "resting")

Recorded ==
  \A r \in Requests :
    requests[r].op \in {"start", "stop", "remove", "publish"} /\ ~At(r, "find") =>
      records[Name(r)] # NoRecord

(* What Remove has taken away by the time it gets to a label. *)
ForwarderGone(r) ==
  /\ requests[r].op = "remove"
  /\ requests[r].pc \in {"dropRelay", "rmNetwork", "dropRemote", "deleteRecord"}

RelayGone(r) ==
  /\ requests[r].op = "remove"
  /\ requests[r].pc \in {"rmNetwork", "dropRemote", "deleteRecord"}

TakenDown ==
  \A r \in Requests :
    /\ ForwarderGone(r) => ~Mine(r).forwarder.present
    /\ RelayGone(r) => Mine(r).relay = "none"

InTurn == TypeOK /\ OneCallEach /\ Recorded /\ TakenDown /\ SidecarsHaveRecord

-----------------------------------------------------------------------------
(* How sidecars and records come and go                                    *)

LEMMA SidecarsComeFromRun ==
  ASSUME TypeOK, NEW r \in Requests, Step(r), NEW n \in Names
  PROVE  /\ runtime[n].relay = "none" /\ runtime'[n].relay # "none" => RunRelay(r)
         /\ ~runtime[n].forwarder.present /\ runtime'[n].forwarder.present => RunForwarder(r)
<1> SUFFICES ASSUME n = Name(r)
             PROVE  /\ Mine(r).relay = "none" /\ runtime'[n].relay # "none" => RunRelay(r)
                    /\ ~Mine(r).forwarder.present /\ runtime'[n].forwarder.present
                         => RunForwarder(r)
  BY StepOfSandbox DEF Mine
<1>1. Mine(r) \in Objects
  BY StepOfCall, CallInFlight
<1> USE <1>1 DEF TypeOK, Mine, Command, Objects
<1>2. CASE MakeNetwork(r)      BY <1>2 DEF MakeNetwork
<1>3. CASE CreateContainer(r)
  <2>1. runtime'[n] = Mine(r) \/ runtime'[n] = [Mine(r) EXCEPT !.container = "created", !.volume = TRUE]
    BY <1>3 DEF CreateContainer
  <2>2. runtime'[n].relay = Mine(r).relay /\ runtime'[n].forwarder = Mine(r).forwarder
    BY <2>1
  <2>3. QED
    BY <2>2
<1>4. CASE DropRelay(r)        BY <1>4 DEF DropRelay
<1>5. CASE RunRelay(r)         BY <1>5 DEF RunRelay
<1>6. CASE AttachRelay(r)      BY <1>6 DEF AttachRelay
<1>7. CASE StartContainer(r)   BY <1>7 DEF StartContainer
<1>8. CASE MakeClone(r) \/ FinishClone(r)
  BY <1>8 DEF MakeClone, FinishClone
<1>9. CASE StopContainer(r)    BY <1>9 DEF StopContainer
<1>10. CASE Unpublish(r)       BY <1>10 DEF Unpublish, NoForwarder
<1>11. CASE RunForwarder(r)    BY <1>11 DEF RunForwarder, Forwarder
<1>12. CASE DropForwarder(r)   BY <1>12 DEF DropForwarder, NoForwarder
<1>13. CASE AttachForwarder(r) BY <1>13 DEF AttachForwarder, Forwarder
<1>14. CASE RmContainer(r)     BY <1>14 DEF RmContainer
<1>15. CASE RmVolume(r)
  <2>1. runtime'[n] = Mine(r) \/ runtime'[n] = [Mine(r) EXCEPT !.volume = FALSE, !.clone = "none"]
    BY <1>15 DEF RmVolume
  <2>2. runtime'[n].relay = Mine(r).relay /\ runtime'[n].forwarder = Mine(r).forwarder
    BY <2>1
  <2>3. QED
    BY <2>2
<1>16. CASE RmNetwork(r)       BY <1>16 DEF RmNetwork
<1>17. CASE \/ CheckName(r) \/ ReadPolicy(r) \/ WritePolicy(r) \/ PutNew(r) \/ AddRemote(r)
            \/ Find(r) \/ Observe(r) \/ PutState(r) \/ PutPorts(r) \/ DropRemote(r)
            \/ DeleteRecord(r)
  BY <1>17 DEF CheckName, ReadPolicy, WritePolicy, PutNew, AddRemote, Find, Observe, PutState,
     PutPorts, DropRemote, DeleteRecord, Put
<1>18. QED
  BY <1>2, <1>3, <1>4, <1>5, <1>6, <1>7, <1>8, <1>9, <1>10, <1>11, <1>12, <1>13, <1>14, <1>15,
     <1>16, <1>17 DEF Step

LEMMA RecordsGoByDelete ==
  ASSUME TypeOK, NEW r \in Requests, Step(r), NEW n \in Names,
         records[n] # NoRecord, records'[n] = NoRecord
  PROVE  DeleteRecord(r) /\ n = Name(r)
<1>1. n = Name(r) /\ requests[r] \in Request
  BY StepOfSandbox DEF TypeOK
<1>2. CASE PutNew(r)
  BY <1>1, <1>2, NoRecordAssumption DEF PutNew, Put, TypeOK, Record, Statuses
<1>3. CASE PutState(r)
  <2>1. requests[r].snap \in Record
    BY <1>1, <1>3, LabelTells, CallFields DEF PutState, At
  <2>2. QED
    BY <1>1, <1>3, <2>1, NoRecordAssumption DEF PutState, Put, TypeOK
<1>4. CASE PutPorts(r)
  <2>1. requests[r].snap \in Record /\ requests[r].ports \in SUBSET Ports
    BY <1>1, <1>4, LabelTells, CallFields DEF PutPorts, At
  <2>2. [requests[r].snap EXCEPT !.ports = requests[r].ports] \in Record
    BY <2>1 DEF Record
  <2>3. QED
    BY <1>1, <1>4, <2>2, NoRecordAssumption DEF PutPorts, TypeOK
<1>5. CASE DeleteRecord(r)
  BY <1>1, <1>5
<1>6. CASE Step(r) /\ ~PutNew(r) /\ ~PutState(r) /\ ~PutPorts(r) /\ ~DeleteRecord(r)
  <2>1. UNCHANGED records
    BY <1>6
    DEF Step, Command, CheckName, ReadPolicy, WritePolicy, MakeNetwork, CreateContainer,
        AddRemote, Find, Observe, DropRelay, RunRelay, AttachRelay, StartContainer, MakeClone,
        FinishClone,
        StopContainer, Unpublish, RunForwarder, DropForwarder, AttachForwarder, RmContainer,
        RmVolume, RmNetwork, DropRemote
  <2>2. QED
    BY <2>1
<1>7. QED
  BY <1>2, <1>3, <1>4, <1>5, <1>6

(* Remove gets past a sidecar by having removed it. *)
LEMMA RemoveClears ==
  ASSUME TypeOK, NEW r \in Requests, Step(r)
  PROVE  /\ ForwarderGone(r)' => ForwarderGone(r) \/ ~runtime'[Name(r)].forwarder.present
         /\ RelayGone(r)' => RelayGone(r) \/ runtime'[Name(r)].relay = "none"
<1>1. /\ requests[r] \in Request /\ Name(r) \in Names /\ Mine(r) \in Objects
      /\ requests[r].op # "none"
  BY StepOfCall, CallInFlight
<1>2. CASE requests[r].op # "remove"
  BY <1>1, <1>2, StepOfCall, TypesPreserved, LabelTells
  DEF ForwarderGone, RelayGone, TypeOK, Next
<1>3. CASE requests[r].op = "remove" /\ ~ForwarderGone(r)
  <2>1. \/ Find(r) \/ Observe(r) \/ RmContainer(r) \/ RmVolume(r) \/ Unpublish(r)
    BY <1>1, <1>3, LabelTells
    DEF ForwarderGone, Step, At, CheckName, ReadPolicy, WritePolicy, MakeNetwork,
        CreateContainer, PutNew, AddRemote, PutState, DropRelay, RunRelay, AttachRelay,
        StartContainer, MakeClone,
        FinishClone, StopContainer, PutPorts, RunForwarder, DropForwarder,
        AttachForwarder, RmNetwork, DropRemote, DeleteRecord
  <2>2. CASE Find(r)
    <3>1. requests'[r].pc \in {"rmContainer", "observe", "resting"}
      BY <1>1, <1>3, <2>2, ReturnRests DEF Find, FirstCall, TypeOK, Request
    <3>2. QED
      BY <3>1 DEF ForwarderGone, RelayGone
  <2>3. CASE Observe(r)
    <3>1. requests'[r].pc \in {"rmContainer", "resting"}
      BY <1>3, <2>3, GotoKeeps, ReturnRests DEF Observe
    <3>2. QED
      BY <3>1 DEF ForwarderGone, RelayGone
  <2>4. CASE RmContainer(r) \/ RmVolume(r)
    <3>1. requests'[r].pc \in {"rmVolume", "unpublish", "resting"}
      BY <2>4, GotoKeeps, ReturnRests, ProceedEither DEF RmContainer, RmVolume, Command
    <3>2. QED
      BY <3>1 DEF ForwarderGone, RelayGone
  <2>5. CASE Unpublish(r)
    <3>1. \/ requests'[r].pc = "resting"
          \/ requests'[r].pc = "dropRelay" /\ runtime' =
               [runtime EXCEPT ![Name(r)] = [Mine(r) EXCEPT !.forwarder = NoForwarder]]
      BY <1>3, <2>5, GotoKeeps, ReturnRests, ProceedEither DEF Unpublish, Command
    <3>2. QED
      BY <1>1, <3>1 DEF ForwarderGone, RelayGone, TypeOK, Objects, NoForwarder
  <2>6. QED
    BY <2>1, <2>2, <2>3, <2>4, <2>5
<1>4. CASE ForwarderGone(r)
  <2>1. RelayGone(r) \/ DropRelay(r)
    BY <1>1, <1>4, LabelTells
    DEF ForwarderGone, RelayGone, Step, At, Find, Observe, RmContainer, RmVolume, Unpublish,
        CheckName, ReadPolicy, WritePolicy, MakeNetwork,
        CreateContainer, PutNew, AddRemote, PutState, RunRelay, AttachRelay,
        StartContainer, MakeClone,
        FinishClone, StopContainer, PutPorts, RunForwarder, DropForwarder,
        AttachForwarder, RmNetwork, DropRemote, DeleteRecord
  <2>2. CASE DropRelay(r)
    <3>1. \/ requests'[r].pc = "resting"
          \/ runtime' = [runtime EXCEPT ![Name(r)] = [Mine(r) EXCEPT !.relay = "none"]]
      BY <2>2, ReturnRests DEF DropRelay, Command
    <3>2. QED
      BY <1>1, <1>4, <3>1 DEF ForwarderGone, RelayGone, TypeOK, Objects
  <2>3. QED
    BY <1>4, <2>1, <2>2
<1>5. QED
  BY <1>2, <1>3, <1>4 DEF ForwarderGone

-----------------------------------------------------------------------------
(* The invariant                                                           *)

LEMMA BeginKeepsTurns ==
  ASSUME TakeTurns, InTurn, NEW r \in Requests, Call(r)
  PROVE  InTurn'
<1>1. TypeOK /\ TypeOK'
  <2>1. Next
    BY DEF Next
  <2>2. QED
    BY <2>1, TypesPreserved DEF InTurn
<1>2. PICK n \in Names, op \in Operations, ports \in SUBSET Ports, force \in BOOLEAN :
        Begin(r, op, n, ports, force)
  BY DEF Call, Operations
<1>3. /\ UNCHANGED <<records, runtime>>
      /\ \A q \in Requests \ {r} : requests'[q] = requests[q] /\ Name(q) # n
      /\ requests'[r].name = n
      /\ requests'[r].op = op
      /\ requests'[r].pc = IF op = "create" THEN "checkName" ELSE "find"
  BY <1>1, <1>2 DEF Begin, Overlaps, TypeOK
<1>4. OneCallEach'
  BY <1>3 DEF InTurn, OneCallEach, Name, At
<1>5. Recorded'
  BY <1>3 DEF InTurn, Recorded, Name, At, Operations
<1>6. TakenDown'
  BY <1>3 DEF InTurn, TakenDown, ForwarderGone, RelayGone, Name, Mine
<1>7. SidecarsHaveRecord'
  BY <1>3 DEF InTurn, SidecarsHaveRecord
<1>8. QED
  BY <1>1, <1>4, <1>5, <1>6, <1>7 DEF InTurn

LEMMA StepKeepsTurns ==
  ASSUME InTurn, NEW r \in Requests, Step(r)
  PROVE  InTurn'
<1>1. TypeOK /\ TypeOK'
  <2>1. Next
    BY DEF Next
  <2>2. QED
    BY <2>1, TypesPreserved DEF InTurn
<1>2. /\ requests[r] \in Request /\ Name(r) \in Names /\ ~At(r, "resting")
      /\ \A q \in Requests \ {r} : requests'[q] = requests[q]
      /\ \/ requests'[r].pc = "resting" /\ requests'[r].name = NoName
         \/ requests'[r].op = requests[r].op /\ requests'[r].name = Name(r)
  BY <1>1, StepOfCall, CallInFlight DEF Name
<1>3. \A q \in Requests \ {r} :
        ~At(q, "resting") =>
          /\ Name(q) \in Names \ {Name(r)}
          /\ runtime'[Name(q)] = runtime[Name(q)]
          /\ records'[Name(q)] = records[Name(q)]
  BY <1>1, <1>2, CallInFlight, StepOfSandbox DEF InTurn, OneCallEach
<1>4. OneCallEach'
  <2> SUFFICES ASSUME NEW q \in Requests, NEW p \in Requests, q # p, Name(q)' = Name(p)'
               PROVE  At(q, "resting")'
    BY DEF OneCallEach
  <2>1. CASE q # r /\ p # r
    BY <1>2, <2>1 DEF InTurn, OneCallEach, Name, At
  <2>2. CASE q = r \/ p = r
    <3>1. \A c \in Requests : requests'[c].name = NoName <=> requests'[c].pc = "resting"
      BY <1>1, LabelTells DEF TypeOK, Request
    <3>2. CASE Name(q)' = NoName
      BY <3>1, <3>2 DEF Name, At
    <3>3. CASE Name(q)' # NoName
      <4>1. Name(q)' = Name(r) /\ Name(p)' = Name(r)
        BY <1>2, <2>2, <3>3, <3>1 DEF Name
      <4>2. Name(q) = Name(r) /\ Name(p) = Name(r)
        BY <1>2, <4>1 DEF Name
      <4>3. At(q, "resting") \/ q = r
        BY <4>2 DEF InTurn, OneCallEach
      <4>4. At(p, "resting") \/ p = r
        BY <4>2 DEF InTurn, OneCallEach
      <4>5. QED
        BY <1>2, <2>2, <4>1, <4>2, <4>3, <4>4 DEF Name, At, InTurn, OneCallEach
    <3>4. QED
      BY <3>2, <3>3
  <2>3. QED
    BY <2>1, <2>2
<1>5. Recorded'
  <2> SUFFICES ASSUME NEW q \in Requests,
                      requests'[q].op \in {"start", "stop", "remove", "publish"},
                      requests'[q].pc # "find"
               PROVE  records'[Name(q)'] # NoRecord
    BY DEF Recorded, At
  <2>1. CASE q # r
    <3>1. Name(q)' = Name(q) /\ requests'[q] = requests[q]
      BY <1>2, <2>1 DEF Name
    <3>2. ~At(q, "resting") /\ ~At(q, "find")
      BY <1>1, <3>1, LabelTells DEF At, TypeOK
    <3>3. records[Name(q)] # NoRecord
      BY <3>1, <3>2 DEF InTurn, Recorded
    <3>4. QED
      BY <1>3, <2>1, <3>1, <3>2, <3>3
  <2>2. CASE q = r
    <3>1. requests'[r].op = requests[r].op /\ Name(r)' = Name(r) /\ requests'[r].pc # "resting"
      BY <1>1, <1>2, <2>2, LabelTells DEF Name, TypeOK
    <3>2. records[Name(r)] # NoRecord
      <4>1. CASE At(r, "find")
        <5>1. Find(r)
          BY <4>1
          DEF Step, At, CheckName, ReadPolicy, WritePolicy, MakeNetwork, CreateContainer,
              PutNew, AddRemote, Observe, PutState, DropRelay, RunRelay, AttachRelay,
              StartContainer, MakeClone,
              FinishClone, StopContainer, PutPorts, Unpublish, RunForwarder,
              DropForwarder, AttachForwarder, RmContainer, RmVolume, RmNetwork, DropRemote,
              DeleteRecord
        <5>2. QED
          BY <1>1, <3>1, <5>1, ReturnRests DEF Find
      <4>2. CASE ~At(r, "find")
        BY <2>2, <3>1, <4>2 DEF InTurn, Recorded
      <4>3. QED
        BY <4>1, <4>2
    <3>3. ~DeleteRecord(r)
      BY <1>1, <3>1, ReturnRests DEF DeleteRecord
    <3>4. QED
      BY <1>1, <1>2, <2>2, <3>1, <3>2, <3>3, RecordsGoByDelete
  <2>3. QED
    BY <2>1, <2>2
<1>6. TakenDown'
  <2> SUFFICES ASSUME NEW q \in Requests
               PROVE  /\ ForwarderGone(q)' => ~runtime'[Name(q)'].forwarder.present
                      /\ RelayGone(q)' => runtime'[Name(q)'].relay = "none"
    BY DEF TakenDown, Mine
  <2>1. CASE q # r
    <3>1. Name(q)' = Name(q) /\ requests'[q] = requests[q]
      BY <1>2, <2>1 DEF Name
    <3>2. ForwarderGone(q) \/ RelayGone(q) => ~At(q, "resting")
      BY DEF ForwarderGone, RelayGone, At
    <3>3. QED
      BY <1>3, <2>1, <3>1, <3>2 DEF InTurn, TakenDown, ForwarderGone, RelayGone, Mine
  <2>2. CASE q = r /\ (ForwarderGone(r)' \/ RelayGone(r)')
    <3>1. Name(r)' = Name(r) /\ requests[r].op = "remove"
      BY <1>2, <2>2 DEF ForwarderGone, RelayGone, Name
    <3>2. ~RunRelay(r) /\ ~RunForwarder(r)
      BY <1>2, <3>1, LabelTells DEF RunRelay, RunForwarder, At
    <3>3. /\ ForwarderGone(r) => ~runtime'[Name(r)].forwarder.present
          /\ RelayGone(r) => runtime'[Name(r)].relay = "none"
      BY <1>1, <1>2, <3>2, SidecarsComeFromRun DEF InTurn, TakenDown, Mine
    <3>4. QED
      BY <1>1, <2>2, <3>1, <3>3, RemoveClears
  <2>3. QED
    BY <2>1, <2>2
<1>7. SidecarsHaveRecord'
  <2> SUFFICES ASSUME NEW n \in Names,
                      runtime'[n].relay # "none" \/ runtime'[n].forwarder.present,
                      records'[n] = NoRecord
               PROVE  FALSE
    BY DEF SidecarsHaveRecord
  <2>1. n = Name(r)
    BY <1>1, StepOfSandbox DEF InTurn, SidecarsHaveRecord
  <2>2. CASE RunRelay(r) \/ RunForwarder(r)
    <3>1. requests[r].op \in {"start", "publish"} /\ ~At(r, "find")
      BY <1>2, <2>2, LabelTells DEF RunRelay, RunForwarder, At
    <3>2. records[n] # NoRecord
      BY <2>1, <3>1 DEF InTurn, Recorded
    <3>3. UNCHANGED records
      BY <2>2 DEF RunRelay, RunForwarder, Command
    <3>4. QED
      BY <3>2, <3>3
  <2>3. CASE ~RunRelay(r) /\ ~RunForwarder(r)
    <3>1. runtime[n].relay # "none" \/ runtime[n].forwarder.present
      BY <1>1, <2>3, SidecarsComeFromRun
    <3>2. DeleteRecord(r)
      BY <1>1, <3>1, RecordsGoByDelete DEF InTurn, SidecarsHaveRecord
    <3>3. ForwarderGone(r) /\ RelayGone(r)
      BY <1>2, <3>2, LabelTells DEF DeleteRecord, At, ForwarderGone, RelayGone
    <3>4. QED
      BY <2>1, <3>1, <3>3 DEF InTurn, TakenDown, Mine
  <2>4. QED
    BY <2>2, <2>3
<1>8. QED
  BY <1>1, <1>4, <1>5, <1>6, <1>7 DEF InTurn

LEMMA TurnsPreserved == TakeTurns /\ InTurn /\ [Next]_vars => InTurn'
<1> SUFFICES ASSUME TakeTurns, InTurn, [Next]_vars PROVE InTurn'
  OBVIOUS
<1>1. TypeOK /\ TypeOK'
  BY TypesPreserved DEF InTurn
<1>2. ASSUME NEW r \in Requests, Call(r) PROVE InTurn'
  BY <1>2, BeginKeepsTurns
<1>3. ASSUME NEW r \in Requests, Step(r) PROVE InTurn'
  BY <1>3, StepKeepsTurns
<1>4. CASE UNCHANGED <<records, runtime, requests>>
  BY <1>1, <1>4
  DEF InTurn, OneCallEach, Recorded, TakenDown, SidecarsHaveRecord, ForwarderGone, RelayGone,
      Name, Mine, At
<1>5. ASSUME NEW m \in Names, ContainerExits(m) PROVE InTurn'
  <2>1. /\ UNCHANGED <<records, requests>>
        /\ \A n \in Names : /\ runtime'[n].relay = runtime[n].relay
                            /\ runtime'[n].forwarder = runtime[n].forwarder
    BY <1>1, <1>5 DEF ContainerExits, TypeOK, Objects
  <2>2. \A r \in Requests : ~At(r, "resting") => Name(r) \in Names
    BY <1>1, CallInFlight
  <2>3. TakenDown'
    BY <2>1, <2>2 DEF InTurn, TakenDown, ForwarderGone, RelayGone, Name, Mine, At
  <2>4. QED
    BY <1>1, <2>1, <2>3
    DEF InTurn, OneCallEach, Recorded, SidecarsHaveRecord, Name, At
<1>6. CASE DaemonDies
  <2>1. /\ UNCHANGED <<records, runtime>>
        /\ \A r \in Requests : /\ requests'[r].pc = "resting" /\ requests'[r].op = "none"
                               /\ requests'[r].name = NoName
    BY <1>1, <1>6, LabelTells DEF DaemonDies, Resting, TypeOK, Request, At
  <2>2. QED
    BY <1>1, <2>1
    DEF InTurn, OneCallEach, Recorded, TakenDown, SidecarsHaveRecord, ForwarderGone, RelayGone,
        Name, At
<1>7. QED
  BY <1>2, <1>3, <1>4, <1>5, <1>6 DEF Next, SetPolicy, vars

LEMMA InitInTurn == Init => InTurn
<1> SUFFICES ASSUME Init PROVE InTurn
  OBVIOUS
<1>1. TypeOK
  BY InitTypes
<1>2. /\ \A r \in Requests : requests[r].op = "none" /\ requests[r].pc = "resting"
      /\ \A n \in Names : runtime[n] = Nothing
  BY DEF Init, Resting
<1>3. QED
  BY <1>1, <1>2
  DEF InTurn, OneCallEach, Recorded, TakenDown, SidecarsHaveRecord, ForwarderGone, RelayGone,
      At, Nothing, NoForwarder

(* When clients take turns, a relay or a forwarder never outlives the       *)
(* record it is found by, whatever is refused, interrupted or killed        *)
(* (direct.Remove deletes the record last, after OCI.Remove).               *)
THEOREM SidecarsAreFindable ==
  ASSUME TakeTurns
  PROVE  Spec => []SidecarsHaveRecord
<1>1. InTurn /\ [Next]_vars => InTurn'
  BY TurnsPreserved
<1>2. InTurn => SidecarsHaveRecord
  BY DEF InTurn
<1>3. QED
  BY InitInTurn, <1>1, <1>2, PTL DEF Spec

-----------------------------------------------------------------------------
(* The sandbox service implements the Catalogue when clients take turns,   *)
(* for any sandboxes, ports and number of calls in flight, and any of the  *)
(* faults.                                                                 *)
(*                                                                         *)
(* The argument: a call in flight carries the ports of the record as it    *)
(* is, a Create has found the name free and it stays so, and a forwarder   *)
(* that is not there holds nothing.  So the five steps that matter outside *)
(* are the catalogue's five actions, and all the others are stutters.      *)

UpToDate ==
  \A r \in Requests :
    requests[r].op \in {"start", "stop", "remove", "publish"} /\ ~At(r, "find") =>
      requests[r].snap.ports = records[Name(r)].ports

NewNames ==
  \A r \in Requests :
    requests[r].op = "create" /\ requests[r].pc \notin {"checkName", "addRemote"} =>
      records[Name(r)] = NoRecord

HeldByForwarder ==
  \A n \in Names : ~runtime[n].forwarder.present => runtime[n].forwarder.ports = {}

Exact == InTurn /\ UpToDate /\ NewNames /\ HeldByForwarder

-----------------------------------------------------------------------------
(* What a step writes                                                      *)

(* A step that is not about the forwarder leaves it alone. *)
LEMMA ForwardersStay ==
  ASSUME TypeOK, NEW r \in Requests, Step(r),
         ~Unpublish(r), ~RunForwarder(r), ~DropForwarder(r), ~AttachForwarder(r),
         NEW n \in Names
  PROVE  runtime'[n].forwarder = runtime[n].forwarder
<1> SUFFICES ASSUME n = Name(r) PROVE runtime'[n].forwarder = Mine(r).forwarder
  BY StepOfSandbox DEF Mine
<1>1. Mine(r) \in Objects
  BY StepOfCall, CallInFlight
<1> USE <1>1 DEF TypeOK, Mine, Command, Objects
<1>2. CASE MakeNetwork(r)      BY <1>2 DEF MakeNetwork
<1>3. CASE CreateContainer(r)
  <2>1. runtime'[n] = Mine(r) \/ runtime'[n] = [Mine(r) EXCEPT !.container = "created", !.volume = TRUE]
    BY <1>3 DEF CreateContainer
  <2>2. QED
    BY <2>1
<1>4. CASE DropRelay(r)        BY <1>4 DEF DropRelay
<1>5. CASE RunRelay(r)         BY <1>5 DEF RunRelay
<1>6. CASE AttachRelay(r)      BY <1>6 DEF AttachRelay
<1>7. CASE StartContainer(r)   BY <1>7 DEF StartContainer
<1>8. CASE MakeClone(r) \/ FinishClone(r)
  BY <1>8 DEF MakeClone, FinishClone
<1>9. CASE StopContainer(r)    BY <1>9 DEF StopContainer
<1>10. CASE RmContainer(r)     BY <1>10 DEF RmContainer
<1>11. CASE RmVolume(r)
  <2>1. runtime'[n] = Mine(r) \/ runtime'[n] = [Mine(r) EXCEPT !.volume = FALSE, !.clone = "none"]
    BY <1>11 DEF RmVolume
  <2>2. QED
    BY <2>1
<1>12. CASE RmNetwork(r)       BY <1>12 DEF RmNetwork
<1>13. CASE \/ CheckName(r) \/ ReadPolicy(r) \/ WritePolicy(r) \/ PutNew(r) \/ AddRemote(r)
            \/ Find(r) \/ Observe(r) \/ PutState(r) \/ PutPorts(r) \/ DropRemote(r)
            \/ DeleteRecord(r)
  BY <1>13 DEF CheckName, ReadPolicy, WritePolicy, PutNew, AddRemote, Find, Observe, PutState,
     PutPorts, DropRemote, DeleteRecord, Put
<1>14. QED
  BY <1>2, <1>3, <1>4, <1>5, <1>6, <1>7, <1>8, <1>9, <1>10, <1>11, <1>12, <1>13 DEF Step

(* Records are written by four steps, and calls keep their copies. *)
LEMMA RecordsStay ==
  ASSUME TypeOK, NEW r \in Requests, Step(r),
         ~PutNew(r), ~PutState(r), ~PutPorts(r), ~DeleteRecord(r)
  PROVE  UNCHANGED records
  BY DEF Step, Command, CheckName, ReadPolicy, WritePolicy, MakeNetwork, CreateContainer,
     AddRemote, Find, Observe, DropRelay, RunRelay, AttachRelay, StartContainer, MakeClone,
     FinishClone,
     StopContainer, Unpublish, RunForwarder, DropForwarder, AttachForwarder, RmContainer,
     RmVolume, RmNetwork, DropRemote

LEMMA SnapsStay ==
  ASSUME TypeOK, NEW r \in Requests, Step(r), ~Find(r), ~Observe(r), ~PutPorts(r)
  PROVE  requests'[r].pc = "resting" \/ requests'[r].snap = requests[r].snap
<1>1. \/ \E label : Goto(r, label) \/ Proceed(r, label)
      \/ \E out : Return(r, out)
  BY DEF Step, Command, Put, CheckName, ReadPolicy, WritePolicy, MakeNetwork, CreateContainer,
     PutNew, AddRemote, PutState, DropRelay, RunRelay, AttachRelay, StartContainer,
     MakeClone, FinishClone, StopContainer, Unpublish, RunForwarder, DropForwarder, AttachForwarder,
     RmContainer, RmVolume, RmNetwork, DropRemote, DeleteRecord
<1>2. QED
  BY <1>1, GotoKeeps, ReturnRests, ProceedEither

(* What a call's copy of its record becomes. *)
LEMMA SnapsFollow ==
  ASSUME Exact, NEW r \in Requests, Step(r),
         requests[r].op \in {"start", "stop", "remove", "publish"},
         requests'[r].pc # "resting"
  PROVE  requests'[r].snap.ports = records'[Name(r)].ports
<1>1. /\ TypeOK /\ requests[r] \in Request /\ Name(r) \in Names
      /\ ~At(r, "find") => /\ requests[r].snap \in Record
                           /\ requests[r].snap.ports = records[Name(r)].ports
  BY CallInFlight, StepOfCall, CallFields DEF Exact, InTurn, UpToDate, At
<1>2. CASE Find(r)
  BY <1>1, <1>2, ReturnRests DEF Find, TypeOK, Request
<1>3. CASE Observe(r)
  <2>1. requests[r].snap \in Record /\ requests[r].snap.ports = records[Name(r)].ports
    BY <1>1, <1>3 DEF Observe, At
  <2>2. CASE requests[r].op \in {"start", "stop"}
    <3>1. PICK status :
            requests' = [requests EXCEPT ![r].pc = "putState", ![r].snap.status = status]
      BY <1>3, <2>2 DEF Observe
    <3>2. requests'[r].snap = [requests[r].snap EXCEPT !.status = status]
      BY <1>1, <3>1 DEF TypeOK, Request
    <3>3. requests'[r].snap.ports = requests[r].snap.ports
      BY <2>1, <3>2 DEF Record
    <3>4. QED
      BY <1>3, <2>1, <3>3 DEF Observe
  <2>3. CASE requests[r].op \in {"publish", "remove"}
    BY <1>1, <1>3, <2>1, <2>3, GotoKeeps, ReturnRests, ProceedEither DEF Observe
  <2>4. QED
    BY <2>2, <2>3
<1>4. CASE PutPorts(r)
  <2>1. requests[r].snap \in Record
    BY <1>1, <1>4 DEF PutPorts, At
  <2>2. /\ records'[Name(r)] = [requests[r].snap EXCEPT !.ports = requests[r].ports]
        /\ requests'[r].snap = [requests[r].snap EXCEPT !.ports = requests[r].ports]
    BY <1>1, <1>4, ReturnRests DEF PutPorts, TypeOK, Request
  <2>3. QED
    BY <2>2
<1>5. CASE PutState(r)
  <2>1. records'[Name(r)] = requests[r].snap /\ requests'[r].snap = requests[r].snap
    BY <1>1, <1>5, SnapsStay, ReturnRests, GotoKeeps, ProceedEither
    DEF PutState, Put, TypeOK, Find, Observe, PutPorts, At
  <2>2. QED
    BY <2>1
<1>6. CASE ~Find(r) /\ ~Observe(r) /\ ~PutPorts(r) /\ ~PutState(r)
  <2>1. ~PutNew(r) /\ ~DeleteRecord(r) /\ ~At(r, "find")
    BY <1>1, <1>6, LabelTells, ReturnRests
    DEF PutNew, DeleteRecord, Step, At, CheckName, ReadPolicy, WritePolicy, MakeNetwork,
        CreateContainer, AddRemote, DropRelay, RunRelay, AttachRelay, StartContainer,
        MakeClone,
        FinishClone, StopContainer, Unpublish, RunForwarder, DropForwarder, AttachForwarder,
        RmContainer, RmVolume, RmNetwork, DropRemote
  <2>2. QED
    BY <1>1, <1>6, <2>1, RecordsStay, SnapsStay
<1>7. QED
  BY <1>2, <1>3, <1>4, <1>5, <1>6

-----------------------------------------------------------------------------
(* The invariant                                                           *)

LEMMA StepKeepsUpToDate ==
  ASSUME Exact, NEW r \in Requests, Step(r)
  PROVE  UpToDate'
<1>1. TypeOK /\ InTurn
  BY DEF Exact, InTurn
<1> SUFFICES ASSUME NEW q \in Requests,
                    requests'[q].op \in {"start", "stop", "remove", "publish"},
                    requests'[q].pc # "find"
             PROVE  requests'[q].snap.ports = records'[Name(q)'].ports
  BY DEF UpToDate, At
<1>2. requests'[q] \in Request
  <2>1. Next
    BY DEF Next
  <2>2. QED
    BY <1>1, <2>1, TypesPreserved DEF TypeOK
<1>3. requests'[q].pc # "resting"
  BY <1>2, LabelTells
<1>4. CASE q # r
  <2>1. requests'[q] = requests[q] /\ Name(q)' = Name(q) /\ ~At(q, "resting") /\ ~At(q, "find")
    BY <1>1, <1>3, <1>4, StepOfCall DEF Name, At
  <2>2. Name(q) \in Names /\ Name(q) # Name(r)
    BY <1>1, <1>4, <2>1, CallInFlight, StepOfCall DEF InTurn, OneCallEach
  <2>3. records'[Name(q)] = records[Name(q)]
    BY <1>1, <2>2, StepOfSandbox
  <2>4. QED
    BY <2>1, <2>3 DEF Exact, UpToDate
<1>5. CASE q = r
  BY <1>1, <1>3, <1>5, StepOfCall, SnapsFollow DEF Name
<1>6. QED
  BY <1>4, <1>5

LEMMA StepKeepsNewNames ==
  ASSUME Exact, NEW r \in Requests, Step(r)
  PROVE  NewNames'
<1>1. TypeOK /\ InTurn
  BY DEF Exact, InTurn
<1> SUFFICES ASSUME NEW q \in Requests, requests'[q].op = "create",
                    requests'[q].pc \notin {"checkName", "addRemote"}
             PROVE  records'[Name(q)'] = NoRecord
  BY DEF NewNames
<1>2. requests'[q] \in Request
  <2>1. Next
    BY DEF Next
  <2>2. QED
    BY <1>1, <2>1, TypesPreserved DEF TypeOK
<1>3. requests'[q].pc # "resting"
  BY <1>2, LabelTells
<1>4. CASE q # r
  <2>1. requests'[q] = requests[q] /\ Name(q)' = Name(q) /\ ~At(q, "resting")
    BY <1>1, <1>3, <1>4, StepOfCall DEF Name, At
  <2>2. Name(q) \in Names /\ Name(q) # Name(r)
    BY <1>1, <1>4, <2>1, CallInFlight, StepOfCall DEF InTurn, OneCallEach
  <2>3. records'[Name(q)] = records[Name(q)]
    BY <1>1, <2>2, StepOfSandbox
  <2>4. QED
    BY <2>1, <2>3 DEF Exact, NewNames
<1>5. CASE q = r
  <2>1. requests[r] \in Request /\ requests[r].op = "create" /\ Name(r)' = Name(r)
    BY <1>1, <1>3, <1>5, StepOfCall DEF TypeOK, Name
  <2>2. CASE CheckName(r)
    BY <1>1, <1>3, <1>5, <2>1, <2>2, ReturnRests DEF CheckName
  <2>3. CASE PutNew(r) \/ AddRemote(r)
    BY <1>1, <1>3, <1>5, <2>3, GotoKeeps, ReturnRests, ProceedEither DEF PutNew, Put, AddRemote
  <2>4. CASE ~CheckName(r) /\ ~PutNew(r) /\ ~AddRemote(r)
    <3>1. requests[r].pc \notin {"checkName", "putNew", "addRemote"}
      BY <2>1, <2>4, LabelTells
      DEF Step, At, ReadPolicy, WritePolicy, MakeNetwork, CreateContainer, Find, Observe,
          PutState, DropRelay, RunRelay, AttachRelay, StartContainer, MakeClone, FinishClone,
          StopContainer, PutPorts, Unpublish, RunForwarder, DropForwarder, AttachForwarder,
          RmContainer, RmVolume, RmNetwork, DropRemote, DeleteRecord
    <3>2. ~PutState(r) /\ ~PutPorts(r) /\ ~DeleteRecord(r)
      BY <2>1, LabelTells DEF PutState, PutPorts, DeleteRecord, At
    <3>3. UNCHANGED records
      BY <1>1, <2>4, <3>2, RecordsStay
    <3>4. QED
      BY <1>5, <2>1, <3>1, <3>3 DEF Exact, NewNames
  <2>5. QED
    BY <2>2, <2>3, <2>4
<1>6. QED
  BY <1>4, <1>5

LEMMA StepKeepsHeld ==
  ASSUME Exact, NEW r \in Requests, Step(r)
  PROVE  HeldByForwarder'
<1>1. /\ TypeOK /\ Name(r) \in Names /\ Mine(r) \in Objects
      /\ \A n \in Names : ~runtime[n].forwarder.present => runtime[n].forwarder.ports = {}
  BY StepOfCall, CallInFlight DEF Exact, InTurn, HeldByForwarder
<1> SUFFICES ASSUME NEW n \in Names, ~runtime'[n].forwarder.present
             PROVE  runtime'[n].forwarder.ports = {}
  BY DEF HeldByForwarder
<1>2. CASE n # Name(r) \/ (~Unpublish(r) /\ ~RunForwarder(r) /\ ~DropForwarder(r) /\ ~AttachForwarder(r))
  BY <1>1, <1>2, ForwardersStay, StepOfSandbox
<1> USE <1>1 DEF TypeOK, Mine, Command, Objects
<1>3. CASE n = Name(r) /\ Unpublish(r)
  BY <1>3 DEF Unpublish, NoForwarder
<1>4. CASE n = Name(r) /\ RunForwarder(r)
  BY <1>4 DEF RunForwarder, DeadForwarder
<1>5. CASE n = Name(r) /\ DropForwarder(r)
  BY <1>5 DEF DropForwarder, NoForwarder
<1>6. CASE n = Name(r) /\ AttachForwarder(r)
  BY <1>6 DEF AttachForwarder, Forwarder
<1>7. QED
  BY <1>2, <1>3, <1>4, <1>5, <1>6

LEMMA ExactPreserved == TakeTurns /\ Exact /\ [Next]_vars => Exact'
<1> SUFFICES ASSUME TakeTurns, Exact, [Next]_vars PROVE Exact'
  OBVIOUS
<1>1. TypeOK /\ TypeOK' /\ InTurn'
  BY TurnsPreserved DEF Exact, InTurn
<1>2. ASSUME NEW r \in Requests, Step(r) PROVE Exact'
  BY <1>1, <1>2, StepKeepsUpToDate, StepKeepsNewNames, StepKeepsHeld DEF Exact
<1>3. ASSUME NEW r \in Requests, Call(r) PROVE Exact'
  <2>1. PICK n \in Names, op \in Operations, ports \in SUBSET Ports, force \in BOOLEAN :
          Begin(r, op, n, ports, force)
    BY <1>3 DEF Call, Operations
  <2>2. /\ UNCHANGED <<records, runtime>>
        /\ \A q \in Requests \ {r} : requests'[q] = requests[q]
        /\ requests'[r].op = op
        /\ requests'[r].pc = IF op = "create" THEN "checkName" ELSE "find"
    BY <1>1, <2>1 DEF Begin, TypeOK
  <2>3. UpToDate'
    BY <2>2 DEF Exact, UpToDate, Name, At, Operations
  <2>4. NewNames'
    BY <2>2 DEF Exact, NewNames, Name, Operations
  <2>5. QED
    BY <1>1, <2>2, <2>3, <2>4 DEF Exact, HeldByForwarder
<1>4. CASE UNCHANGED <<records, runtime, requests>>
  BY <1>1, <1>4 DEF Exact, UpToDate, NewNames, HeldByForwarder, Name, At
<1>5. ASSUME NEW m \in Names, ContainerExits(m) PROVE Exact'
  <2>1. /\ UNCHANGED <<records, requests>>
        /\ \A n \in Names : runtime'[n].forwarder = runtime[n].forwarder
    BY <1>1, <1>5 DEF ContainerExits, TypeOK, Objects
  <2>2. QED
    BY <1>1, <2>1 DEF Exact, UpToDate, NewNames, HeldByForwarder, Name, At
<1>6. CASE DaemonDies
  <2>1. /\ UNCHANGED <<records, runtime>>
        /\ \A r \in Requests : requests'[r].op = "none"
    BY <1>1, <1>6, LabelTells DEF DaemonDies, Resting, TypeOK, At
  <2>2. QED
    BY <1>1, <2>1 DEF Exact, UpToDate, NewNames, HeldByForwarder, Name, At
<1>7. QED
  BY <1>2, <1>3, <1>4, <1>5, <1>6 DEF Next, SetPolicy, vars

LEMMA InitExact == Init => Exact
<1> SUFFICES ASSUME Init PROVE Exact
  OBVIOUS
<1>1. /\ \A r \in Requests : requests[r].op = "none"
      /\ \A n \in Names : runtime[n].forwarder.ports = {}
  BY DEF Init, Resting, Nothing, NoForwarder
<1>2. QED
  BY <1>1, InitInTurn DEF Exact, UpToDate, NewNames, HeldByForwarder

-----------------------------------------------------------------------------
(* The refinement                                                          *)

Wanted == [n \in Names |-> IF records[n] = NoRecord THEN NoRecord ELSE records[n].ports]
Held   == [n \in Names |-> runtime[n].forwarder.ports]

(* Steps on the forwarder hold its ports, or release them. *)
LEMMA ForwarderSteps ==
  ASSUME Exact, NEW r \in Requests,
         Unpublish(r) \/ RunForwarder(r) \/ DropForwarder(r) \/ AttachForwarder(r)
  PROVE  [Promise!Next]_<<Wanted, Held>>
<1>1. TypeOK /\ Step(r)
  BY DEF Exact, InTurn, Step
<1>2. /\ Name(r) \in Names /\ Mine(r) \in Objects /\ requests[r] \in Request
      /\ UNCHANGED <<Wanted, records>>
  BY <1>1, CallInFlight, StepOfCall
  DEF Wanted, Unpublish, RunForwarder, DropForwarder, AttachForwarder, Command
<1>3. \A n \in Names \ {Name(r)} : runtime'[n] = runtime[n]
  BY <1>1, StepOfSandbox
<1>4. CASE runtime'[Name(r)].forwarder.ports = {}
  <2>1. Held' = [Held EXCEPT ![Name(r)] = {}]
    BY <1>2, <1>3, <1>4 DEF Held
  <2>2. QED
    BY <1>2, <2>1 DEF Promise!Next, Promise!Release, Wanted, Held
<1>5. CASE runtime'[Name(r)].forwarder.ports = Mine(r).forwarder.ports
  <2>1. Held' = Held
    BY <1>2, <1>3, <1>5 DEF Held, Mine
  <2>2. QED
    BY <1>2, <2>1
<1>6. CASE /\ RunForwarder(r)
           /\ runtime'[Name(r)].forwarder.ports = requests[r].snap.ports
           /\ requests[r].snap.ports \cap Taken(Name(r)) = {}
  <2>1. /\ records[Name(r)] # NoRecord
        /\ records[Name(r)].ports = requests[r].snap.ports
    <3>1. requests[r].op \in {"start", "publish"} /\ ~At(r, "find")
      BY <1>2, <1>6, LabelTells DEF RunForwarder, At
    <3>2. QED
      BY <3>1 DEF Exact, InTurn, Recorded, UpToDate
  <2>2. Wanted[Name(r)] = requests[r].snap.ports /\ Wanted[Name(r)] # NoRecord
    <3>1. requests[r].snap.ports # NoRecord
      <4>1. records[Name(r)].ports \in SUBSET Ports
        BY <1>1, <1>2, <2>1 DEF TypeOK, Record
      <4>2. QED
        BY <2>1, <4>1, NoRecordAssumption
    <3>2. QED
      BY <1>2, <2>1, <3>1 DEF Wanted
  <2>3. \A m \in Names \ {Name(r)} : Held[m] \cap Wanted[Name(r)] = {}
    BY <1>6, <2>2 DEF Held, Taken
  <2>4. Held' = [Held EXCEPT ![Name(r)] = Wanted[Name(r)]]
    BY <1>2, <1>3, <1>6, <2>2 DEF Held
  <2>5. QED
    BY <1>2, <2>2, <2>3, <2>4 DEF Promise!Next, Promise!Hold, Wanted, Held
<1> USE <1>2 DEF TypeOK, Mine, Command, Objects
<1>7. CASE Unpublish(r)
  BY <1>1, <1>4, <1>5, <1>7 DEF Unpublish, NoForwarder
<1>8. CASE RunForwarder(r)
  BY <1>1, <1>4, <1>5, <1>6, <1>8 DEF RunForwarder, DeadForwarder
<1>9. CASE DropForwarder(r)
  BY <1>1, <1>4, <1>5, <1>9 DEF DropForwarder, NoForwarder
<1>10. CASE AttachForwarder(r)
  BY <1>1, <1>5, <1>10 DEF AttachForwarder, Forwarder
<1>11. QED
  BY <1>7, <1>8, <1>9, <1>10

(* Steps on the record register, publish or forget; a state is no news. *)
LEMMA RecordSteps ==
  ASSUME Exact, NEW r \in Requests, PutNew(r) \/ PutState(r) \/ PutPorts(r) \/ DeleteRecord(r)
  PROVE  [Promise!Next]_<<Wanted, Held>>
<1>1. TypeOK /\ Step(r)
  BY DEF Exact, InTurn, Step
<1>2. /\ Name(r) \in Names /\ requests[r] \in Request
      /\ UNCHANGED runtime
      /\ \A n \in Names \ {Name(r)} : records'[n] = records[n]
  BY <1>1, CallInFlight, StepOfCall, StepOfSandbox
  DEF PutNew, PutState, PutPorts, DeleteRecord, Put
<1>3. UNCHANGED Held
  BY <1>2 DEF Held
<1>4. CASE UNCHANGED records
  BY <1>3, <1>4 DEF Wanted
<1>5. \A ports : records'[Name(r)] # NoRecord /\ records'[Name(r)].ports = ports =>
         Wanted' = [Wanted EXCEPT ![Name(r)] = ports]
  BY <1>2 DEF Wanted
<1>6. CASE PutNew(r) /\ records' = [records EXCEPT ![Name(r)] = [status |-> "created", ports |-> {}]]
  <2>1. Wanted[Name(r)] = NoRecord
    <3>1. requests[r].op = "create"
      BY <1>2, <1>6, LabelTells DEF PutNew, At
    <3>2. records[Name(r)] = NoRecord
      BY <1>6, <3>1 DEF Exact, NewNames, PutNew, At
    <3>3. QED
      BY <1>2, <3>2 DEF Wanted
  <2>2. records'[Name(r)] = [status |-> "created", ports |-> {}]
    BY <1>1, <1>2, <1>6 DEF TypeOK
  <2>3. [status |-> "created", ports |-> {}] # NoRecord
    BY NoRecordAssumption DEF Record, Statuses
  <2>4. Wanted' = [Wanted EXCEPT ![Name(r)] = {}]
    BY <1>5, <2>2, <2>3
  <2>5. QED
    BY <1>3, <2>1, <2>4 DEF Promise!Next, Promise!Register, Wanted, Held
<1>7. CASE PutState(r) /\ records' = [records EXCEPT ![Name(r)] = requests[r].snap]
  <2>1. requests[r].op \in {"start", "stop"} /\ ~At(r, "find")
    BY <1>2, <1>7, LabelTells DEF PutState, At
  <2>2. /\ requests[r].snap # NoRecord
        /\ requests[r].snap.ports = records[Name(r)].ports
        /\ records[Name(r)] # NoRecord
    BY <1>2, <2>1, CallFields, NoRecordAssumption DEF Exact, InTurn, Recorded, UpToDate, At
  <2>3. records'[Name(r)] = requests[r].snap
    BY <1>1, <1>2, <1>7 DEF TypeOK
  <2>4. UNCHANGED Wanted
    BY <1>2, <2>2, <2>3 DEF Wanted
  <2>5. QED
    BY <1>3, <2>4
<1>8. CASE PutPorts(r) /\ records' = [records EXCEPT ![Name(r)] =
                                        [requests[r].snap EXCEPT !.ports = requests[r].ports]]
  <2>1. requests[r].op = "publish" /\ ~At(r, "find")
    BY <1>2, <1>8, LabelTells DEF PutPorts, At
  <2>2. /\ requests[r].snap \in Record /\ requests[r].ports \in SUBSET Ports
        /\ records[Name(r)] # NoRecord
    BY <1>2, <2>1, CallFields DEF Exact, InTurn, Recorded, At
  <2>3. /\ [requests[r].snap EXCEPT !.ports = requests[r].ports] # NoRecord
        /\ [requests[r].snap EXCEPT !.ports = requests[r].ports].ports = requests[r].ports
    BY <2>2, NoRecordAssumption DEF Record
  <2>4. records'[Name(r)] = [requests[r].snap EXCEPT !.ports = requests[r].ports]
    BY <1>1, <1>2, <1>8 DEF TypeOK
  <2>5. Wanted' = [Wanted EXCEPT ![Name(r)] = requests[r].ports]
    BY <1>5, <2>3, <2>4
  <2>6. Wanted[Name(r)] # NoRecord
    <3>1. records[Name(r)].ports \in SUBSET Ports
      BY <1>1, <1>2, <2>2 DEF TypeOK, Record
    <3>2. QED
      BY <1>2, <2>2, <3>1, NoRecordAssumption DEF Wanted
  <2>7. QED
    BY <1>3, <2>2, <2>5, <2>6 DEF Promise!Next, Promise!Publish, Wanted, Held
<1>9. CASE DeleteRecord(r) /\ records' = [records EXCEPT ![Name(r)] = NoRecord]
  <2>1. ForwarderGone(r)
    BY <1>2, <1>9, LabelTells DEF DeleteRecord, At, ForwarderGone
  <2>2. Held[Name(r)] = {}
    BY <1>2, <2>1 DEF Exact, InTurn, TakenDown, HeldByForwarder, Held, Mine
  <2>3. Wanted' = [Wanted EXCEPT ![Name(r)] = NoRecord]
    BY <1>1, <1>2, <1>9 DEF Wanted, TypeOK
  <2>4. QED
    BY <1>3, <2>2, <2>3 DEF Promise!Next, Promise!Forget, Wanted, Held
<1>10. QED
  BY <1>4, <1>6, <1>7, <1>8, <1>9 DEF PutNew, PutState, PutPorts, DeleteRecord, Put

LEMMA StepsKeepPromise ==
  ASSUME TakeTurns, Exact, [Next]_vars
  PROVE  [Promise!Next]_<<Wanted, Held>>
<1>1. TypeOK
  BY DEF Exact, InTurn
<1>2. ASSUME NEW r \in Requests, Step(r) PROVE [Promise!Next]_<<Wanted, Held>>
  <2>1. CASE Unpublish(r) \/ RunForwarder(r) \/ DropForwarder(r) \/ AttachForwarder(r)
    BY <2>1, ForwarderSteps
  <2>2. CASE PutNew(r) \/ PutState(r) \/ PutPorts(r) \/ DeleteRecord(r)
    BY <2>2, RecordSteps
  <2>3. CASE /\ ~Unpublish(r) /\ ~RunForwarder(r) /\ ~DropForwarder(r) /\ ~AttachForwarder(r)
             /\ ~PutNew(r) /\ ~PutState(r) /\ ~PutPorts(r) /\ ~DeleteRecord(r)
    BY <1>1, <1>2, <2>3, ForwardersStay, RecordsStay DEF Wanted, Held
  <2>4. QED
    BY <2>1, <2>2, <2>3
<1>3. ASSUME NEW r \in Requests, Call(r) PROVE UNCHANGED <<Wanted, Held>>
  BY <1>3 DEF Call, Begin, Wanted, Held
<1>4. ASSUME NEW m \in Names, ContainerExits(m) PROVE UNCHANGED <<Wanted, Held>>
  <2>1. \A n \in Names : runtime'[n].forwarder = runtime[n].forwarder
    BY <1>1, <1>4 DEF ContainerExits, TypeOK, Objects
  <2>2. QED
    BY <1>4, <2>1 DEF ContainerExits, Wanted, Held
<1>5. CASE UNCHANGED <<records, runtime>>
  BY <1>5 DEF Wanted, Held
<1>6. QED
  BY <1>2, <1>3, <1>4, <1>5 DEF Next, SetPolicy, DaemonDies, vars

(* When clients take turns, a sandbox holds host ports only while it has a *)
(* record, exactly those the record names and none another sandbox holds,  *)
(* and only a Publish changes what the record names, whatever is refused,  *)
(* interrupted or killed (direct over OCI and the store).                  *)
THEOREM ServiceKeepsPromise ==
  ASSUME TakeTurns
  PROVE  Spec => KeepsPromise
<1>1. Init => Promise!Init
  BY DEF Init, Promise!Init, Nothing, NoForwarder
<1>2. Exact /\ [Next]_vars => Exact'
  BY ExactPreserved
<1>3. Exact /\ [Next]_vars => [Promise!Next]_(Promise!catalogueVars)
  BY StepsKeepPromise DEF Promise!catalogueVars, Wanted, Held
<1>4. QED
  BY InitExact, <1>1, <1>2, <1>3, PTL DEF Spec, KeepsPromise, Promise!Spec

-----------------------------------------------------------------------------
(***************************************************************************)
(* What a call of the service has delivered when it reports success, and   *)
(* what the service leaves behind, when clients take turns.                *)
(*                                                                         *)
(* The argument: a table of each handler's moves, from label to label with *)
(* what it does to its sandbox, proved once from the actions; a course,    *)
(* what a call has achieved by the time it gets to a label, kept by the    *)
(* table for the call that moves and, since no other call is about its     *)
(* sandbox, for all the others; and the last move of each handler.         *)
(***************************************************************************)

(* How each handler moves: from one label to the next, and what of its     *)
(* sandbox it changes on the way.                                          *)

Fails(r) == requests'[r].pc = "resting" /\ requests'[r].out = "error"

Leads(r, from, to, box) ==
  /\ At(r, from) /\ requests'[r].pc = to
  /\ runtime'[Name(r)] = box

LEMMA CommandLeads ==
  ASSUME TypeOK, NEW r \in Requests, ~At(r, "resting"), NEW effect, NEW label,
         \/ runtime' = [runtime EXCEPT ![Name(r)] = effect] /\ Goto(r, label)
         \/ Return(r, "error")
  PROVE  Fails(r) \/ (requests'[r].pc = label /\ runtime'[Name(r)] = effect)
BY CallInFlight, GotoKeeps, ReturnRests DEF Fails, TypeOK

LEMMA StopMoves ==
  ASSUME TypeOK, NEW r \in Requests, Step(r), requests[r].op = "stop"
  PROVE  \/ Fails(r)
         \/ Leads(r, "find", "stopContainer", Mine(r))
         \/ Leads(r, "stopContainer", "unpublish",
              [Mine(r) EXCEPT !.container = IF @ = "running" THEN "stopped" ELSE @])
         \/ Leads(r, "unpublish", "dropRelay", [Mine(r) EXCEPT !.forwarder = NoForwarder])
         \/ Leads(r, "dropRelay", "observe", [Mine(r) EXCEPT !.relay = "none"])
         \/ Leads(r, "observe", "putState", Mine(r))
         \/ Leads(r, "putState", "resting", Mine(r))
<1>1. requests[r] \in Request /\ Name(r) \in Names /\ ~At(r, "resting")
  BY StepOfCall, CallInFlight
<1>2. Find(r) \/ StopContainer(r) \/ Unpublish(r) \/ DropRelay(r) \/ Observe(r) \/ PutState(r)
  BY <1>1, LabelTells
  DEF Step, At, CheckName, ReadPolicy, WritePolicy, MakeNetwork, CreateContainer, PutNew,
      AddRemote, RunRelay, AttachRelay, StartContainer, MakeClone,
      FinishClone, PutPorts, RunForwarder,
      DropForwarder, AttachForwarder, RmContainer, RmVolume, RmNetwork, DropRemote, DeleteRecord
<1>3. CASE Find(r)
  BY <1>1, <1>3, ReturnRests DEF Find, FirstCall, Fails, Leads, Mine, TypeOK, Request
<1>4. CASE StopContainer(r)
  BY <1>1, <1>4, CommandLeads DEF StopContainer, Command, Proceed, Leads
<1>5. CASE Unpublish(r)
  BY <1>1, <1>5, CommandLeads DEF Unpublish, Command, Proceed, Leads
<1>6. CASE DropRelay(r)
  BY <1>1, <1>6, CommandLeads DEF DropRelay, Command, Proceed, Leads
<1>7. CASE Observe(r)
  BY <1>1, <1>7 DEF Observe, Leads, Mine, TypeOK, Request
<1>8. CASE PutState(r)
  BY <1>1, <1>8, ReturnRests DEF PutState, Put, Proceed, Fails, Leads, Mine
<1>9. QED
  BY <1>2, <1>3, <1>4, <1>5, <1>6, <1>7, <1>8

LEMMA RemoveMoves ==
  ASSUME TypeOK, NEW r \in Requests, Step(r), requests[r].op = "remove"
  PROVE  \/ Fails(r)
         \/ Leads(r, "find", "rmContainer", Mine(r))
         \/ Leads(r, "find", "observe", Mine(r))
         \/ Leads(r, "observe", "rmContainer", Mine(r))
         \/ Leads(r, "rmContainer", "rmVolume", [Mine(r) EXCEPT !.container = "none"])
         \/ Leads(r, "rmVolume", "unpublish", [Mine(r) EXCEPT !.volume = FALSE, !.clone = "none"])
         \/ Leads(r, "unpublish", "dropRelay", [Mine(r) EXCEPT !.forwarder = NoForwarder])
         \/ Leads(r, "dropRelay", "rmNetwork", [Mine(r) EXCEPT !.relay = "none"])
         \/ Leads(r, "rmNetwork", "dropRemote", [Mine(r) EXCEPT !.network = FALSE])
         \/ Leads(r, "dropRemote", "deleteRecord", Mine(r))
         \/ Leads(r, "deleteRecord", "resting", Mine(r)) /\ records'[Name(r)] = NoRecord
<1>1. requests[r] \in Request /\ Name(r) \in Names /\ ~At(r, "resting")
  BY StepOfCall, CallInFlight
<1>2. \/ Find(r) \/ Observe(r) \/ RmContainer(r) \/ RmVolume(r) \/ Unpublish(r) \/ DropRelay(r)
      \/ RmNetwork(r) \/ DropRemote(r) \/ DeleteRecord(r)
  BY <1>1, LabelTells
  DEF Step, At, CheckName, ReadPolicy, WritePolicy, MakeNetwork, CreateContainer, PutNew,
      AddRemote, PutState, RunRelay, AttachRelay, StartContainer, MakeClone,
      FinishClone, StopContainer,
      PutPorts, RunForwarder, DropForwarder, AttachForwarder
<1>3. CASE Find(r)
  BY <1>1, <1>3, ReturnRests DEF Find, FirstCall, Fails, Leads, Mine, TypeOK, Request
<1>4. CASE Observe(r)
  BY <1>1, <1>4, GotoKeeps, ReturnRests DEF Observe, Fails, Leads, Mine
<1>5. CASE RmContainer(r)
  BY <1>1, <1>5, CommandLeads DEF RmContainer, Command, Proceed, Leads
<1>6. CASE RmVolume(r)
  BY <1>1, <1>6, CommandLeads DEF RmVolume, Command, Proceed, Leads
<1>7. CASE Unpublish(r)
  BY <1>1, <1>7, CommandLeads DEF Unpublish, Command, Proceed, Leads
<1>8. CASE DropRelay(r)
  BY <1>1, <1>8, CommandLeads DEF DropRelay, Command, Proceed, Leads
<1>9. CASE RmNetwork(r)
  BY <1>1, <1>9, CommandLeads DEF RmNetwork, Command, Proceed, Leads
<1>10. CASE DropRemote(r)
  BY <1>1, <1>10, GotoKeeps DEF DropRemote, Leads, Mine
<1>11. CASE DeleteRecord(r)
  BY <1>1, <1>11, ReturnRests DEF DeleteRecord, Fails, Leads, Mine, TypeOK
<1>12. QED
  BY <1>2, <1>3, <1>4, <1>5, <1>6, <1>7, <1>8, <1>9, <1>10, <1>11

LEMMA RunForwarderMoves ==
  ASSUME TypeOK, NEW r \in Requests, RunForwarder(r)
  PROVE  \/ At(r, "runForwarder") /\ requests'[r].pc = "dropForwarder"
         \/ Leads(r, "runForwarder", "attachForwarder", [Mine(r) EXCEPT !.forwarder =
              [present |-> TRUE, ports |-> requests[r].snap.ports, attached |-> FALSE]])
<1>1. Name(r) \in Names
  BY CallInFlight DEF RunForwarder, At
<1>2. CASE Goto(r, "dropForwarder")
  BY <1>2, GotoKeeps DEF RunForwarder
<1>3. CASE /\ runtime' = [runtime EXCEPT ![Name(r)].forwarder =
                 [present |-> TRUE, ports |-> requests[r].snap.ports, attached |-> FALSE]]
           /\ Goto(r, "attachForwarder")
  BY <1>1, <1>3, GotoKeeps DEF RunForwarder, Leads, Mine, TypeOK
<1>4. QED
  BY <1>2, <1>3 DEF RunForwarder

LEMMA StartMoves ==
  ASSUME TypeOK, NEW r \in Requests, Step(r), requests[r].op = "start"
  PROVE  \/ Fails(r) \/ requests'[r].pc = "dropForwarder"
         \/ Leads(r, "find", "dropRelay", Mine(r))
         \/ Leads(r, "find", "startContainer", Mine(r)) /\ ~Egress
         \/ Leads(r, "dropRelay", "runRelay", [Mine(r) EXCEPT !.relay = "none"])
         \/ Leads(r, "runRelay", "attachRelay", [Mine(r) EXCEPT !.relay = "detached"])
         \/ Leads(r, "attachRelay", "startContainer", [Mine(r) EXCEPT !.relay = "attached"])
         \/ Leads(r, "startContainer", "observe", [Mine(r) EXCEPT !.container = "running"])
         \/ Leads(r, "observe", "putState", Mine(r))
         \/ Leads(r, "putState", "makeClone", Mine(r))
         \/ Leads(r, "makeClone", "unpublish", Mine(r))
         \/ Leads(r, "makeClone", "finishClone", [Mine(r) EXCEPT !.clone = "partial"])
         \/ Leads(r, "finishClone", "unpublish", [Mine(r) EXCEPT !.clone = "whole"])
         \/ /\ Leads(r, "unpublish", "resting", [Mine(r) EXCEPT !.forwarder = NoForwarder])
            /\ requests[r].snap.ports = {}
         \/ /\ Leads(r, "unpublish", "runForwarder", [Mine(r) EXCEPT !.forwarder = NoForwarder])
            /\ requests[r].snap.ports # {}
         \/ Leads(r, "runForwarder", "attachForwarder", [Mine(r) EXCEPT !.forwarder =
              [present |-> TRUE, ports |-> requests[r].snap.ports, attached |-> FALSE]])
         \/ Leads(r, "attachForwarder", "resting", [Mine(r) EXCEPT !.forwarder.attached = TRUE])
<1>1. requests[r] \in Request /\ Name(r) \in Names /\ ~At(r, "resting")
  BY StepOfCall, CallInFlight
<1>2. \/ Find(r) \/ DropRelay(r) \/ RunRelay(r) \/ AttachRelay(r) \/ StartContainer(r)
      \/ Observe(r) \/ PutState(r) \/ MakeClone(r) \/ FinishClone(r)
      \/ Unpublish(r) \/ RunForwarder(r) \/ DropForwarder(r) \/ AttachForwarder(r)
  BY <1>1, LabelTells
  DEF Step, At, CheckName, ReadPolicy, WritePolicy, MakeNetwork, CreateContainer, PutNew,
      AddRemote, StopContainer, PutPorts, RmContainer, RmVolume, RmNetwork, DropRemote,
      DeleteRecord
<1>3. CASE Find(r)
  BY <1>1, <1>3, ReturnRests DEF Find, FirstCall, Fails, Leads, Mine, TypeOK, Request
<1>4. CASE DropRelay(r)
  BY <1>1, <1>4, CommandLeads DEF DropRelay, Command, Proceed, Leads
<1>5. CASE RunRelay(r)
  BY <1>1, <1>5, CommandLeads DEF RunRelay, Command, Proceed, Leads
<1>6. CASE AttachRelay(r)
  BY <1>1, <1>6, CommandLeads DEF AttachRelay, Command, Proceed, Leads
<1>7. CASE StartContainer(r)
  BY <1>1, <1>7, CommandLeads DEF StartContainer, Command, Proceed, Leads
<1>8. CASE Observe(r)
  BY <1>1, <1>8 DEF Observe, Leads, Mine, TypeOK, Request
<1>9. CASE PutState(r)
  BY <1>1, <1>9, GotoKeeps, ReturnRests DEF PutState, Put, Proceed, Fails, Leads, Mine
<1>10. CASE MakeClone(r) \/ FinishClone(r)
  BY <1>1, <1>10, GotoKeeps, ReturnRests DEF MakeClone, FinishClone, Fails, Leads, Mine, TypeOK
<1>11. CASE Unpublish(r)
  <2>1. CASE requests[r].snap.ports = {}
    BY <1>1, <1>11, <2>1, ReturnRests DEF Unpublish, Command, Proceed, Fails, Leads, TypeOK
  <2>2. CASE requests[r].snap.ports # {}
    BY <1>1, <1>11, <2>2, CommandLeads DEF Unpublish, Command, Proceed, Leads
  <2>3. QED
    BY <2>1, <2>2
<1>12. CASE RunForwarder(r)
  BY <1>1, <1>12, RunForwarderMoves
<1>13. CASE DropForwarder(r)
  BY <1>13, ReturnRests DEF DropForwarder, Fails
<1>14. CASE AttachForwarder(r)
  BY <1>1, <1>14, ReturnRests DEF AttachForwarder, Command, Proceed, Fails, Leads, TypeOK
<1>15. QED
  BY <1>2, <1>3, <1>4, <1>5, <1>6, <1>7, <1>8, <1>9, <1>10, <1>11, <1>12, <1>13, <1>14

LEMMA PublishMoves ==
  ASSUME TypeOK, NEW r \in Requests, Step(r), requests[r].op = "publish"
  PROVE  \/ Fails(r) \/ (At(r, "runForwarder") /\ requests'[r].pc = "dropForwarder")
         \/ Leads(r, "find", "putPorts", Mine(r))
         \/ Leads(r, "putPorts", "observe", Mine(r)) /\ requests'[r].snap = records'[Name(r)]
         \/ Leads(r, "observe", "unpublish", Mine(r))
         \/ /\ Leads(r, "observe", "resting", Mine(r))
            /\ Mine(r).container = "running" => requests[r].snap.status # "running"
         \/ /\ Leads(r, "unpublish", "resting", [Mine(r) EXCEPT !.forwarder = NoForwarder])
            /\ requests[r].snap.ports = {}
         \/ /\ Leads(r, "unpublish", "runForwarder", [Mine(r) EXCEPT !.forwarder = NoForwarder])
            /\ requests[r].snap.ports # {}
         \/ Leads(r, "runForwarder", "attachForwarder", [Mine(r) EXCEPT !.forwarder =
              [present |-> TRUE, ports |-> requests[r].snap.ports, attached |-> FALSE]])
         \/ Leads(r, "attachForwarder", "resting", [Mine(r) EXCEPT !.forwarder.attached = TRUE])
<1>1. /\ requests[r] \in Request /\ Name(r) \in Names /\ ~At(r, "resting")
  BY StepOfCall, CallInFlight
<1>2. \/ Find(r) \/ PutPorts(r) \/ Observe(r)
      \/ Unpublish(r) \/ RunForwarder(r) \/ DropForwarder(r) \/ AttachForwarder(r)
  BY <1>1, LabelTells
  DEF Step, At, CheckName, ReadPolicy, WritePolicy, MakeNetwork, CreateContainer, PutNew,
      AddRemote, PutState, DropRelay, RunRelay, AttachRelay, StartContainer, MakeClone, FinishClone,
      StopContainer, RmContainer, RmVolume, RmNetwork, DropRemote, DeleteRecord
<1>3. CASE Find(r)
  BY <1>1, <1>3, ReturnRests DEF Find, FirstCall, Fails, Leads, Mine, TypeOK, Request
<1>4. CASE PutPorts(r)
  <2>1. CASE Return(r, "error")
    BY <2>1, ReturnRests DEF Fails
  <2>2. CASE ~Return(r, "error")
    <3>1. /\ requests' = [requests EXCEPT ![r].pc = "observe",
                                          ![r].snap.ports = requests[r].ports]
          /\ records' = [records EXCEPT ![Name(r)] =
                           [requests[r].snap EXCEPT !.ports = requests[r].ports]]
          /\ UNCHANGED runtime
      BY <1>4, <2>2 DEF PutPorts
    <3>2. requests'[r].snap = [requests[r].snap EXCEPT !.ports = requests[r].ports]
      BY <1>1, <3>1 DEF TypeOK, Request
    <3>3. requests'[r].pc = "observe"
      BY <1>1, <3>1 DEF TypeOK, Request
    <3>4. QED
      BY <1>1, <1>4, <3>1, <3>2, <3>3 DEF PutPorts, Leads, Mine, TypeOK
  <2>3. QED
    BY <2>1, <2>2
<1>5. CASE Observe(r)
  <2>1. PICK status \in Observed(r) :
          Proceed(r, IF status = "running" THEN "unpublish" ELSE "return")
    BY <1>5 DEF Observe
  <2>2. UNCHANGED runtime /\ At(r, "observe")
    BY <1>5 DEF Observe
  <2>3. CASE status = "running"
    BY <2>1, <2>2, <2>3, GotoKeeps DEF Proceed, Leads, Mine
  <2>4. CASE status # "running"
    <3>1. Mine(r).container = "running" => requests[r].snap.status # "running"
      BY <2>1, <2>4 DEF Observed
    <3>2. QED
      BY <2>1, <2>2, <2>4, <3>1, ReturnRests DEF Proceed, Leads, Mine
  <2>5. QED
    BY <2>3, <2>4
<1>6. CASE Unpublish(r)
  <2>1. CASE requests[r].snap.ports = {}
    BY <1>1, <1>6, <2>1, ReturnRests DEF Unpublish, Command, Proceed, Fails, Leads, TypeOK
  <2>2. CASE requests[r].snap.ports # {}
    BY <1>1, <1>6, <2>2, CommandLeads DEF Unpublish, Command, Proceed, Leads
  <2>3. QED
    BY <2>1, <2>2
<1>7. CASE RunForwarder(r)
  BY <1>7, RunForwarderMoves
<1>8. CASE DropForwarder(r)
  BY <1>8, ReturnRests DEF DropForwarder, Fails
<1>9. CASE AttachForwarder(r)
  BY <1>1, <1>9, ReturnRests DEF AttachForwarder, Command, Proceed, Fails, Leads, TypeOK
<1>10. QED
  BY <1>2, <1>3, <1>4, <1>5, <1>6, <1>7, <1>8, <1>9

(* Past its own write, a Publish leaves the record and its copy alone. *)
LEMMA PublishKeepsRecord ==
  ASSUME TypeOK, NEW r \in Requests, Step(r), requests[r].op = "publish",
         ~At(r, "find"), ~At(r, "putPorts")
  PROVE  /\ UNCHANGED records
         /\ requests'[r].pc = "resting" \/ requests'[r].snap = requests[r].snap
<1>1. requests[r] \in Request
  BY DEF TypeOK
<1>2. UNCHANGED records
  BY <1>1, LabelTells, RecordsStay DEF At, PutNew, PutState, PutPorts, DeleteRecord
<1>3. CASE Observe(r)
  BY <1>2, <1>3, GotoKeeps, ReturnRests, ProceedEither DEF Observe
<1>4. CASE ~Observe(r)
  BY <1>2, <1>4, SnapsStay DEF Find, PutPorts
<1>5. QED
  BY <1>3, <1>4

-----------------------------------------------------------------------------
(* What a call has achieved by the time it gets to a label: call is the    *)
(* request, box what the runtime holds for its sandbox.                    *)

StopCourse(call, box) ==
  call.op = "stop" =>
    /\ call.pc \in {"unpublish", "dropRelay", "observe", "putState"} =>
         box.container # "running"
    /\ call.pc \in {"dropRelay", "observe", "putState"} => ~box.forwarder.present
    /\ call.pc \in {"observe", "putState"} => box.relay = "none"

RemoveCourse(call, box) ==
  call.op = "remove" =>
    /\ call.pc \in {"rmVolume", "unpublish", "dropRelay", "rmNetwork", "dropRemote",
                    "deleteRecord"} => box.container = "none"
    /\ call.pc \in {"unpublish", "dropRelay", "rmNetwork", "dropRemote", "deleteRecord"} =>
         ~box.volume /\ box.clone = "none"
    /\ call.pc \in {"dropRelay", "rmNetwork", "dropRemote", "deleteRecord"} =>
         box.forwarder = NoForwarder
    /\ call.pc \in {"rmNetwork", "dropRemote", "deleteRecord"} => box.relay = "none"
    /\ call.pc \in {"dropRemote", "deleteRecord"} => ~box.network

StartCourse(call, box) ==
  call.op = "start" =>
    /\ call.pc \in {"startContainer", "observe", "putState", "makeClone", "finishClone",
                    "unpublish", "runForwarder", "attachForwarder"} =>
         (Egress => box.relay = "attached")
    /\ call.pc \in {"observe", "putState", "makeClone", "finishClone", "unpublish",
                    "runForwarder", "attachForwarder"} =>
         box.container = "running" \/ "exit" \in Faults

ForwarderCourse(call, box) ==
  /\ call.pc \in {"runForwarder", "attachForwarder"} => call.snap.ports # {}
  /\ call.pc = "attachForwarder" => box.forwarder.ports = call.snap.ports

Course(call, box) ==
  /\ StopCourse(call, box)
  /\ RemoveCourse(call, box)
  /\ StartCourse(call, box)
  /\ ForwarderCourse(call, box)

OnCourse == \A r \in Requests : Course(requests[r], Mine(r))

(* What a Publish publishes is the record. *)
Republished ==
  \A r \in Requests :
    requests[r].op = "publish" /\ requests[r].pc \notin {"find", "putPorts"} =>
      requests[r].snap = records[Name(r)]

Delivering == Exact /\ OnCourse /\ Republished

-----------------------------------------------------------------------------
(* The invariant                                                           *)

LEMMA RestingOnCourse ==
  ASSUME NEW call, call.op = "none", call.pc = "resting", NEW box
  PROVE  Course(call, box)
  BY DEF Course, StopCourse, RemoveCourse, StartCourse, ForwarderCourse

LEMMA StopStaysOnCourse ==
  ASSUME TypeOK, NEW r \in Requests, Step(r), requests[r].op = "stop",
         Course(requests[r], Mine(r)), requests'[r].op = "stop"
  PROVE  Course(requests'[r], runtime'[Name(r)])
<1>1. requests'[r] \in Request /\ Mine(r) \in Objects
  BY TypesPreserved, StepOfCall, CallInFlight DEF TypeOK, Next
<1>2. StopCourse(requests[r], Mine(r))
  BY DEF Course
<1>3. requests'[r].pc # "resting"
  BY <1>1, LabelTells
<1>4. StopCourse(requests'[r], runtime'[Name(r)])
  <2> DEFINE pc == requests'[r].pc
             box == runtime'[Name(r)]
  <2>1. pc = "unpublish" => box.container # "running"
    BY <1>1, StopMoves DEF Fails, Leads, Objects
  <2>2. pc = "dropRelay" => box.container # "running" /\ ~box.forwarder.present
    <3>1. pc = "dropRelay" =>
            At(r, "unpublish") /\ box = [Mine(r) EXCEPT !.forwarder = NoForwarder]
      BY StopMoves DEF Fails, Leads
    <3>2. At(r, "unpublish") => Mine(r).container # "running"
      BY <1>2 DEF StopCourse, At
    <3>3. [Mine(r) EXCEPT !.forwarder = NoForwarder].container = Mine(r).container
      BY <1>1 DEF Objects
    <3>4. ~[Mine(r) EXCEPT !.forwarder = NoForwarder].forwarder.present
      BY <1>1 DEF Objects, NoForwarder
    <3>5. QED
      BY <3>1, <3>2, <3>3, <3>4
  <2>3. pc = "observe" =>
          box.container # "running" /\ ~box.forwarder.present /\ box.relay = "none"
    BY <1>1, <1>2, StopMoves DEF StopCourse, Fails, Leads, At, Objects
  <2>4. pc = "putState" =>
          box.container # "running" /\ ~box.forwarder.present /\ box.relay = "none"
    BY <1>1, <1>2, StopMoves DEF StopCourse, Fails, Leads, At
  <2>5. QED
    BY <2>1, <2>2, <2>3, <2>4 DEF StopCourse
<1>5. QED
  BY <1>1, <1>4, LabelTells DEF Course, RemoveCourse, StartCourse, ForwarderCourse

LEMMA RemoveStaysOnCourse ==
  ASSUME TypeOK, NEW r \in Requests, Step(r), requests[r].op = "remove",
         Course(requests[r], Mine(r)), requests'[r].op = "remove"
  PROVE  Course(requests'[r], runtime'[Name(r)])
<1>1. requests'[r] \in Request /\ Mine(r) \in Objects
  BY TypesPreserved, StepOfCall, CallInFlight DEF TypeOK, Next
<1>2. RemoveCourse(requests[r], Mine(r))
  BY DEF Course
<1>3. requests'[r].pc # "resting"
  BY <1>1, LabelTells
<1>4. RemoveCourse(requests'[r], runtime'[Name(r)])
  BY <1>1, <1>2, <1>3, RemoveMoves
  DEF RemoveCourse, Fails, Leads, At, Objects, Forwarder, NoForwarder
<1>5. QED
  BY <1>1, <1>4, LabelTells DEF Course, StopCourse, StartCourse, ForwarderCourse

LEMMA StartStaysOnCourse ==
  ASSUME TypeOK, NEW r \in Requests, Step(r), requests[r].op = "start",
         Course(requests[r], Mine(r)),
         requests'[r].op = "start", requests'[r].name = Name(r)
  PROVE  Course(requests'[r], runtime'[Name(r)])
<1>1. requests'[r] \in Request /\ Mine(r) \in Objects
  BY TypesPreserved, StepOfCall, CallInFlight DEF TypeOK, Next
<1>2. StartCourse(requests[r], Mine(r)) /\ ForwarderCourse(requests[r], Mine(r))
  BY DEF Course
<1>3. requests'[r].pc # "resting" /\ Name(r) \in Names
  BY <1>1, LabelTells, StepOfCall, CallInFlight
<1>5. StartCourse(requests'[r], runtime'[Name(r)])
  BY <1>1, <1>2, <1>3, StartMoves
  DEF StartCourse, Fails, Leads, At, Name, Objects, Forwarder, NoForwarder
<1>6. ForwarderCourse(requests'[r], runtime'[Name(r)])
  <2>1. CASE requests'[r].pc = "runForwarder"
    <3>1. At(r, "unpublish") /\ requests[r].snap.ports # {}
      BY <1>3, <2>1, StartMoves DEF Fails, Leads
    <3>2. QED
      BY <2>1, <3>1, SnapsStay DEF ForwarderCourse, At, Find, Observe, PutPorts
  <2>2. CASE requests'[r].pc = "attachForwarder"
    <3>1. /\ At(r, "runForwarder")
          /\ runtime'[Name(r)] = [Mine(r) EXCEPT !.forwarder =
               [present |-> TRUE, ports |-> requests[r].snap.ports, attached |-> FALSE]]
      BY <1>3, <2>2, StartMoves DEF Fails, Leads
    <3>2. runtime'[Name(r)].forwarder.ports = requests[r].snap.ports
      BY <1>1, <3>1 DEF Objects
    <3>3. QED
      BY <1>2, <2>2, <3>1, <3>2, SnapsStay DEF ForwarderCourse, At, Find, Observe, PutPorts
  <2>3. QED
    BY <2>1, <2>2 DEF ForwarderCourse
<1>7. QED
  BY <1>1, <1>5, <1>6 DEF Course, StopCourse, RemoveCourse

LEMMA PublishStaysOnCourse ==
  ASSUME TypeOK, NEW r \in Requests, Step(r), requests[r].op = "publish",
         Course(requests[r], Mine(r)), requests'[r].op = "publish"
  PROVE  Course(requests'[r], runtime'[Name(r)])
<1>1. requests'[r] \in Request /\ Mine(r) \in Objects
  BY TypesPreserved, StepOfCall, CallInFlight DEF TypeOK, Next
<1>2. ForwarderCourse(requests[r], Mine(r))
  BY DEF Course
<1>3. requests'[r].pc # "resting"
  BY <1>1, LabelTells
<1>4. ForwarderCourse(requests'[r], runtime'[Name(r)])
  <2>1. CASE requests'[r].pc = "runForwarder"
    <3>1. At(r, "unpublish") /\ requests[r].snap.ports # {}
      BY <1>3, <2>1, PublishMoves DEF Fails, Leads
    <3>2. QED
      BY <2>1, <3>1, SnapsStay DEF ForwarderCourse, At, Find, Observe, PutPorts
  <2>2. CASE requests'[r].pc = "attachForwarder"
    <3>1. /\ At(r, "runForwarder")
          /\ runtime'[Name(r)] = [Mine(r) EXCEPT !.forwarder =
               [present |-> TRUE, ports |-> requests[r].snap.ports, attached |-> FALSE]]
      BY <1>3, <2>2, PublishMoves DEF Fails, Leads
    <3>2. runtime'[Name(r)].forwarder.ports = requests[r].snap.ports
      BY <1>1, <3>1 DEF Objects
    <3>3. QED
      BY <1>2, <2>2, <3>1, <3>2, SnapsStay DEF ForwarderCourse, At, Find, Observe, PutPorts
  <2>3. QED
    BY <2>1, <2>2 DEF ForwarderCourse
<1>5. QED
  BY <1>1, <1>4 DEF Course, StopCourse, RemoveCourse, StartCourse

(* The other calls in flight see nothing of a step. *)
LEMMA OthersSeeNothing ==
  ASSUME InTurn, NEW r \in Requests, Step(r), NEW q \in Requests \ {r}, ~At(q, "resting")
  PROVE  /\ requests'[q] = requests[q]
         /\ Name(q) \in Names
         /\ runtime'[Name(q)] = runtime[Name(q)]
         /\ records'[Name(q)] = records[Name(q)]
<1>1. TypeOK /\ ~At(r, "resting") /\ requests'[q] = requests[q]
  BY StepOfCall DEF InTurn
<1>2. Name(q) \in Names \ {Name(r)}
  BY <1>1, CallInFlight DEF InTurn, OneCallEach
<1>3. QED
  BY <1>1, <1>2, StepOfSandbox

LEMMA StepStaysOnCourse ==
  ASSUME Delivering, NEW r \in Requests, Step(r)
  PROVE  OnCourse'
<1>1. /\ TypeOK /\ InTurn /\ OnCourse
      /\ requests' \in [Requests -> Request]
  BY TypesPreserved DEF Delivering, Exact, InTurn, TypeOK, Next
<1> SUFFICES ASSUME NEW q \in Requests
             PROVE  Course(requests'[q], runtime'[requests'[q].name])
  BY DEF OnCourse, Mine, Name
<1>2. CASE requests'[q].op = "none"
  BY <1>1, <1>2, RestingOnCourse, LabelTells
<1>3. CASE requests'[q].op # "none" /\ q # r
  <2>1. requests'[q] = requests[q] /\ ~At(q, "resting")
    BY <1>1, <1>3, StepOfCall, LabelTells DEF At
  <2>2. QED
    BY <1>1, <1>3, <2>1, OthersSeeNothing DEF OnCourse, Mine, Name
<1>4. CASE requests'[q].op # "none" /\ q = r
  <2>1. /\ requests'[r].op = requests[r].op /\ requests'[r].name = Name(r)
        /\ Course(requests[r], Mine(r)) /\ requests[r] \in Request
    BY <1>1, <1>4, StepOfCall, LabelTells DEF OnCourse, Name, TypeOK
  <2>2. CASE requests[r].op = "create"
    <3>1. requests'[r].op = "create" /\ requests'[r] \in Request
      BY <1>1, <2>1, <2>2
    <3>2. requests'[r].pc \notin {"runForwarder", "attachForwarder"}
      BY <3>1, LabelTells
    <3>3. QED
      BY <1>4, <2>1, <3>1, <3>2
      DEF Course, StopCourse, RemoveCourse, StartCourse, ForwarderCourse
  <2>3. CASE requests[r].op # "create"
    <3>1. requests[r].op \in {"start", "stop", "remove", "publish"}
      BY <1>4, <2>1, <2>3, CallFields DEF Operations
    <3>2. QED
      BY <1>1, <1>4, <2>1, <3>1, StartStaysOnCourse, StopStaysOnCourse, RemoveStaysOnCourse,
         PublishStaysOnCourse
  <2>4. QED
    BY <2>2, <2>3
<1>5. QED
  BY <1>2, <1>3, <1>4

LEMMA StepKeepsRepublished ==
  ASSUME Delivering, NEW r \in Requests, Step(r)
  PROVE  Republished'
<1>1. /\ TypeOK /\ InTurn /\ Republished
      /\ requests' \in [Requests -> Request]
  BY TypesPreserved DEF Delivering, Exact, InTurn, TypeOK, Next
<1> SUFFICES ASSUME NEW q \in Requests, requests'[q].op = "publish",
                    requests'[q].pc \notin {"find", "putPorts"}
             PROVE  requests'[q].snap = records'[requests'[q].name]
  BY DEF Republished, Name
<1>2. requests'[q].pc # "resting"
  BY <1>1, LabelTells
<1>3. CASE q # r
  <2>1. requests'[q] = requests[q] /\ ~At(q, "resting")
    BY <1>1, <1>2, <1>3, StepOfCall DEF At
  <2>2. QED
    BY <1>1, <1>3, <2>1, OthersSeeNothing DEF Republished, Name
<1>4. CASE q = r
  <2>1. requests[r].op = "publish" /\ requests'[r].name = Name(r)
    BY <1>1, <1>2, <1>4, StepOfCall DEF Name
  <2>2. CASE requests[r].pc \in {"find", "putPorts"}
    BY <1>1, <1>2, <1>4, <2>1, <2>2, PublishMoves DEF Fails, Leads, At
  <2>3. CASE requests[r].pc \notin {"find", "putPorts"}
    BY <1>1, <1>2, <1>4, <2>1, <2>3, PublishKeepsRecord DEF Republished, At, Name
  <2>4. QED
    BY <2>2, <2>3
<1>5. QED
  BY <1>3, <1>4
LEMMA DeliveringPreserved == TakeTurns /\ Delivering /\ [Next]_vars => Delivering'
<1> SUFFICES ASSUME TakeTurns, Delivering, [Next]_vars PROVE Delivering'
  OBVIOUS
<1>1. TypeOK /\ TypeOK' /\ Exact'
  BY ExactPreserved, TypesPreserved DEF Delivering, Exact, InTurn
<1>2. ASSUME NEW r \in Requests, Step(r) PROVE Delivering'
  BY <1>1, <1>2, StepStaysOnCourse, StepKeepsRepublished DEF Delivering
<1>3. ASSUME NEW r \in Requests, Call(r) PROVE Delivering'
  <2>1. PICK n \in Names, op \in Operations, ports \in SUBSET Ports, force \in BOOLEAN :
          Begin(r, op, n, ports, force)
    BY <1>3 DEF Call, Operations
  <2>2. /\ UNCHANGED <<records, runtime>>
        /\ \A q \in Requests \ {r} : requests'[q] = requests[q]
        /\ requests'[r].pc \in {"checkName", "find"}
    BY <1>1, <2>1 DEF Begin, TypeOK
  <2>3. requests'[r] \in Request
    BY <1>1 DEF TypeOK
  <2>4. Course(requests'[r], runtime'[requests'[r].name])
    BY <2>2, <2>3 DEF Course, StopCourse, RemoveCourse, StartCourse, ForwarderCourse
  <2>5. OnCourse'
    BY <2>2, <2>4 DEF Delivering, OnCourse, Mine, Name
  <2>6. Republished'
    BY <2>2, <2>3, LabelTells DEF Delivering, Republished, Name
  <2>7. QED
    BY <1>1, <2>2, <2>5, <2>6 DEF Delivering
<1>4. CASE UNCHANGED <<records, runtime, requests>>
  BY <1>1, <1>4 DEF Delivering, OnCourse, Republished, Name, Mine
<1>5. ASSUME NEW m \in Names, ContainerExits(m) PROVE Delivering'
  <2>1. /\ UNCHANGED <<records, requests>>
        /\ runtime[m].container = "running" /\ "exit" \in Faults
        /\ runtime'[m] = [runtime[m] EXCEPT !.container = "stopped"]
        /\ \A n \in Names \ {m} : runtime'[n] = runtime[n]
        /\ \A n \in Names : runtime[n] \in Objects
    BY <1>1, <1>5 DEF ContainerExits, TypeOK
  <2>2. \A n \in Names :
          /\ runtime'[n].relay = runtime[n].relay
          /\ runtime'[n].forwarder = runtime[n].forwarder
          /\ runtime'[n].clone = runtime[n].clone
          /\ runtime'[n].network = runtime[n].network
          /\ runtime'[n].volume = runtime[n].volume
          /\ runtime[n].container # "running" => runtime'[n].container = runtime[n].container
          /\ runtime'[n].container \in {runtime[n].container, "stopped"}
    BY <2>1 DEF Objects
  <2>3. ASSUME NEW q \in Requests PROVE Course(requests'[q], runtime'[requests'[q].name])
    <3>1. Course(requests[q], runtime[Name(q)]) /\ requests'[q] = requests[q]
      BY <2>1 DEF Delivering, OnCourse, Mine
    <3>2. CASE requests[q].op = "none"
      BY <1>1, <3>1, <3>2, RestingOnCourse, LabelTells DEF TypeOK
    <3>3. CASE requests[q].op # "none"
      <4>1. Name(q) \in Names
        BY <1>1, <3>3, CallFields DEF TypeOK, Name
      <4>2. QED
        BY <2>1, <2>2, <3>1, <4>1
        DEF Course, StopCourse, RemoveCourse, StartCourse, ForwarderCourse, Name
    <3>4. QED
      BY <3>2, <3>3
  <2>4. QED
    BY <1>1, <2>1, <2>2, <2>3
    DEF Delivering, OnCourse, Republished, Name, Mine
<1>6. CASE DaemonDies
  <2>1. /\ UNCHANGED <<records, runtime>>
        /\ \A r \in Requests : requests'[r].pc = "resting" /\ requests'[r].op = "none"
    BY <1>1, <1>6, LabelTells DEF DaemonDies, Resting, TypeOK, At
  <2>2. QED
    BY <1>1, <2>1, RestingOnCourse DEF Delivering, OnCourse, Republished, Mine
<1>7. QED
  BY <1>2, <1>3, <1>4, <1>5, <1>6 DEF Next, SetPolicy, vars

LEMMA InitDelivering == Init => Delivering
<1> SUFFICES ASSUME Init PROVE Delivering
  OBVIOUS
<1>1. \A r \in Requests : requests[r].op = "none" /\ requests[r].pc = "resting"
  BY DEF Init, Resting
<1>2. QED
  BY <1>1, InitExact, RestingOnCourse DEF Delivering, OnCourse, Republished

-----------------------------------------------------------------------------
(* What a call that reports success has delivered                          *)

(* A call finishes by a step of its own. *)
LEMMA FinishesByStep ==
  ASSUME TypeOK, [Next]_vars, NEW r \in Requests, NEW op \in Operations, Finishes(r, op)
  PROVE  Step(r) /\ requests'[r].out = "ok"
<1>1. requests[r] \in Request /\ requests[r].op # "none" /\ ~At(r, "resting")
  BY LabelTells DEF Finishes, TypeOK, Operations, At
<1>2. requests'[r] # requests[r]
  BY <1>1 DEF Finishes, At
<1>3. ASSUME NEW q \in Requests, Call(q) PROVE FALSE
  <2>1. At(q, "resting") /\ q # r
    BY <1>1, <1>3 DEF Call, Begin, At
  <2>2. requests'[r] = requests[r]
    BY <1>3, <2>1 DEF Call, Begin, TypeOK
  <2>3. QED
    BY <1>2, <2>2
<1>4. ASSUME NEW q \in Requests, Step(q), q # r PROVE FALSE
  BY <1>2, <1>4, StepOfCall
<1>5. ~DaemonDies
  BY <1>1 DEF DaemonDies, Finishes, Resting, At
<1>6. QED
  BY <1>2, <1>3, <1>4, <1>5 DEF Next, SetPolicy, ContainerExits, vars, Finishes

(* When clients take turns, a Stop that reports success has taken the       *)
(* container's run, its host ports and its relay away, whatever failed or   *)
(* was interrupted before it (direct.Stop, OCI.Stop).                       *)
THEOREM StopsTakePortsOff ==
  ASSUME TakeTurns
  PROVE  Spec => StopTakesPortsOff
<1> DEFINE TakenOff ==
      \A r \in Requests : Finishes(r, "stop") =>
        LET left == runtime'[Name(r)] IN
        /\ left.container # "running"
        /\ left.relay = "none"
        /\ ~left.forwarder.present
<1>1. ASSUME Delivering, [Next]_vars PROVE TakenOff
  <2> SUFFICES ASSUME NEW r \in Requests, Finishes(r, "stop")
               PROVE  /\ runtime'[Name(r)].container # "running"
                      /\ runtime'[Name(r)].relay = "none"
                      /\ ~runtime'[Name(r)].forwarder.present
    OBVIOUS
  <2>1. TypeOK /\ Step(r) /\ requests[r].op = "stop" /\ ~Fails(r)
    BY <1>1, FinishesByStep DEF Delivering, Exact, InTurn, Operations, Finishes, Fails
  <2>2. At(r, "putState") /\ runtime'[Name(r)] = Mine(r)
    BY <2>1, StopMoves DEF Leads, Finishes
  <2>3. QED
    BY <1>1, <2>1, <2>2 DEF Delivering, OnCourse, Course, StopCourse, At
<1>2. Delivering /\ [Next]_vars => [TakenOff]_vars
  BY <1>1
<1>3. QED
  BY InitDelivering, DeliveringPreserved, <1>2, PTL DEF Spec, StopTakesPortsOff

(* When clients take turns, a Remove that reports success has deleted the   *)
(* sandbox, everything the runtime held for it and its record, whatever     *)
(* state failed or interrupted calls had left it in (direct.Remove,         *)
(* OCI.Remove).                                                             *)
THEOREM RemovesLeaveNothing ==
  ASSUME TakeTurns
  PROVE  Spec => RemoveLeavesNothing
<1> DEFINE Gone ==
      \A r \in Requests : Finishes(r, "remove") =>
        /\ runtime'[Name(r)] = Nothing
        /\ records'[Name(r)] = NoRecord
<1>1. ASSUME Delivering, [Next]_vars PROVE Gone
  <2> SUFFICES ASSUME NEW r \in Requests, Finishes(r, "remove")
               PROVE  runtime'[Name(r)] = Nothing /\ records'[Name(r)] = NoRecord
    OBVIOUS
  <2>1. TypeOK /\ Step(r) /\ requests[r].op = "remove" /\ ~Fails(r)
    BY <1>1, FinishesByStep DEF Delivering, Exact, InTurn, Operations, Finishes, Fails
  <2>2. /\ At(r, "deleteRecord") /\ runtime'[Name(r)] = Mine(r)
        /\ records'[Name(r)] = NoRecord
    BY <2>1, RemoveMoves DEF Leads, Finishes
  <2>3. /\ Mine(r).container = "none" /\ ~Mine(r).volume /\ ~Mine(r).network
        /\ Mine(r).relay = "none" /\ Mine(r).forwarder = NoForwarder /\ Mine(r).clone = "none"
    BY <1>1, <2>1, <2>2 DEF Delivering, OnCourse, Course, RemoveCourse, At
  <2>4. Mine(r) \in Objects
    BY <2>1, StepOfCall, CallInFlight
  <2>5. Mine(r) = Nothing
    BY <2>3, <2>4 DEF Objects, Nothing
  <2>6. QED
    BY <2>2, <2>5
<1>2. Delivering /\ [Next]_vars => [Gone]_vars
  BY <1>1
<1>3. QED
  BY InitDelivering, DeliveringPreserved, <1>2, PTL DEF Spec, RemoveLeavesNothing

(* What a Start or a Publish that gets to its end has published. *)
LEMMA FinishesPublished ==
  ASSUME Delivering, NEW r \in Requests, Step(r),
         requests[r].op \in {"start", "publish"},
         \/ /\ Leads(r, "unpublish", "resting", [Mine(r) EXCEPT !.forwarder = NoForwarder])
            /\ requests[r].snap.ports = {}
         \/ Leads(r, "attachForwarder", "resting", [Mine(r) EXCEPT !.forwarder.attached = TRUE])
  PROVE  /\ runtime'[Name(r)].forwarder.ports = records'[Name(r)].ports
         /\ runtime'[Name(r)].forwarder.attached <=> records'[Name(r)].ports # {}
         /\ runtime'[Name(r)].container = Mine(r).container
         /\ runtime'[Name(r)].relay = Mine(r).relay
<1>1. TypeOK /\ Mine(r) \in Objects /\ ForwarderCourse(requests[r], Mine(r))
  BY StepOfCall, CallInFlight DEF Delivering, Exact, InTurn, OnCourse, Course
<1>2. /\ requests[r].snap.ports = records[Name(r)].ports
      /\ UNCHANGED records
  BY <1>1, RecordsStay
  DEF Delivering, Exact, UpToDate, Leads, At, PutNew, PutState, PutPorts, DeleteRecord
<1>3. CASE /\ Leads(r, "unpublish", "resting", [Mine(r) EXCEPT !.forwarder = NoForwarder])
           /\ requests[r].snap.ports = {}
  BY <1>1, <1>2, <1>3 DEF Leads, Objects, NoForwarder
<1>4. CASE Leads(r, "attachForwarder", "resting", [Mine(r) EXCEPT !.forwarder.attached = TRUE])
  BY <1>1, <1>2, <1>4 DEF Leads, At, ForwarderCourse, Objects, Forwarder
<1>5. QED
  BY <1>3, <1>4

(* When clients take turns, a Start that reports success leaves a container *)
(* running with a relay attached and a forwarder carrying the ports of its  *)
(* record, whatever an earlier failed start left behind (direct.Start,      *)
(* OCI.ensureRelay, OCI.Publish).                                           *)
THEOREM StartsDeliver ==
  ASSUME TakeTurns
  PROVE  Spec => StartDelivers
<1> DEFINE Delivered ==
      \A r \in Requests : Finishes(r, "start") =>
        LET given == runtime'[Name(r)]
            ports == records'[Name(r)].ports
        IN
        /\ given.container = "running" \/ "exit" \in Faults
        /\ Egress => given.relay = "attached"
        /\ given.forwarder.ports = ports
        /\ given.forwarder.attached <=> ports # {}
<1>1. ASSUME Delivering, [Next]_vars PROVE Delivered
  <2> SUFFICES ASSUME NEW r \in Requests, Finishes(r, "start")
               PROVE  LET given == runtime'[Name(r)]
                          ports == records'[Name(r)].ports
                      IN
                      /\ given.container = "running" \/ "exit" \in Faults
                      /\ Egress => given.relay = "attached"
                      /\ given.forwarder.ports = ports
                      /\ given.forwarder.attached <=> ports # {}
    OBVIOUS
  <2>1. TypeOK /\ Step(r) /\ requests[r].op = "start" /\ ~Fails(r)
    BY <1>1, FinishesByStep DEF Delivering, Exact, InTurn, Operations, Finishes, Fails
  <2>2. \/ /\ Leads(r, "unpublish", "resting", [Mine(r) EXCEPT !.forwarder = NoForwarder])
           /\ requests[r].snap.ports = {}
        \/ Leads(r, "attachForwarder", "resting", [Mine(r) EXCEPT !.forwarder.attached = TRUE])
    BY <2>1, StartMoves DEF Leads, Finishes
  <2>3. StartCourse(requests[r], Mine(r)) /\ requests[r].pc \in {"unpublish", "attachForwarder"}
    BY <1>1, <2>2 DEF Delivering, OnCourse, Course, Leads, At
  <2>4. /\ Mine(r).container = "running" \/ "exit" \in Faults
        /\ Egress => Mine(r).relay = "attached"
    BY <2>1, <2>3 DEF StartCourse
  <2>5. QED
    BY <1>1, <2>1, <2>2, <2>4, FinishesPublished
<1>2. Delivering /\ [Next]_vars => [Delivered]_vars
  BY <1>1
<1>3. QED
  BY InitDelivering, DeliveringPreserved, <1>2, PTL DEF Spec, StartDelivers

(* When clients take turns, a Publish that reports success on a sandbox     *)
(* recorded as running, and still so, has brought its forwarder into line   *)
(* with the record (direct.Publish).                                        *)
THEOREM PublishesDeliver ==
  ASSUME TakeTurns
  PROVE  Spec => PublishDelivers
<1> DEFINE Delivered ==
      \A r \in Requests :
        LET now == runtime'[Name(r)]
            sb  == records'[Name(r)]
        IN Finishes(r, "publish") /\ now.container = "running" /\ sb.status = "running" =>
             /\ now.forwarder.ports = sb.ports
             /\ now.forwarder.attached <=> sb.ports # {}
<1>1. ASSUME Delivering, [Next]_vars PROVE Delivered
  <2> SUFFICES ASSUME NEW r \in Requests, Finishes(r, "publish"),
                      runtime'[Name(r)].container = "running",
                      records'[Name(r)].status = "running"
               PROVE  /\ runtime'[Name(r)].forwarder.ports = records'[Name(r)].ports
                      /\ runtime'[Name(r)].forwarder.attached <=> records'[Name(r)].ports # {}
    OBVIOUS
  <2>1. TypeOK /\ Step(r) /\ requests[r].op = "publish" /\ ~Fails(r)
    BY <1>1, FinishesByStep DEF Delivering, Exact, InTurn, Operations, Finishes, Fails
  <2>2. CASE /\ Leads(r, "observe", "resting", Mine(r))
             /\ Mine(r).container = "running" => requests[r].snap.status # "running"
    <3>1. requests[r].snap = records[Name(r)] /\ UNCHANGED records
      BY <1>1, <2>1, <2>2, PublishKeepsRecord DEF Delivering, Republished, Leads, At
    <3>2. QED
      BY <2>2, <3>1 DEF Leads
  <2>3. CASE \/ /\ Leads(r, "unpublish", "resting", [Mine(r) EXCEPT !.forwarder = NoForwarder])
                /\ requests[r].snap.ports = {}
             \/ Leads(r, "attachForwarder", "resting",
                  [Mine(r) EXCEPT !.forwarder.attached = TRUE])
    BY <1>1, <2>1, <2>3, FinishesPublished
  <2>4. QED
    BY <2>1, <2>2, <2>3, PublishMoves DEF Leads, Finishes
<1>2. Delivering /\ [Next]_vars => [Delivered]_vars
  BY <1>1
<1>3. QED
  BY InitDelivering, DeliveringPreserved, <1>2, PTL DEF Spec, PublishDelivers

-----------------------------------------------------------------------------
(* Records, containers and remotes keep together while nothing fails       *)

(* A step leaves a sandbox with a record it had, and without one it had    *)
(* not, but for PutNew and DeleteRecord.                                   *)
LEMMA RecordsComeAndGo ==
  ASSUME InTurn, NEW r \in Requests, Step(r), ~PutNew(r), ~DeleteRecord(r), NEW n \in Names
  PROVE  records'[n] = NoRecord <=> records[n] = NoRecord
<1>1. TypeOK
  BY DEF InTurn
<1>2. records[n] # NoRecord => records'[n] # NoRecord
  BY <1>1, RecordsGoByDelete
<1>3. CASE PutState(r) \/ PutPorts(r)
  <2>1. requests[r].op \in {"start", "stop", "publish"} /\ ~At(r, "find")
    BY <1>1, <1>3, LabelTells DEF PutState, PutPorts, At, TypeOK
  <2>2. records[Name(r)] # NoRecord
    BY <2>1 DEF InTurn, Recorded
  <2>3. QED
    BY <1>1, <1>2, <2>2, StepOfSandbox
<1>4. CASE ~PutState(r) /\ ~PutPorts(r)
  BY <1>1, <1>4, RecordsStay
<1>5. QED
  BY <1>3, <1>4

(* Without a record, a sandbox's container has not been started.           *)
LEMMA InertPreserved ==
  TakeTurns /\ Delivering /\ OrphansNeverRan /\ [Next]_vars => OrphansNeverRan'
<1> SUFFICES ASSUME TakeTurns, Delivering, OrphansNeverRan, [Next]_vars,
                    NEW n \in Names, records'[n] = NoRecord
             PROVE  runtime'[n].container \in {"none", "created"} /\ runtime'[n].clone = "none"
  BY DEF OrphansNeverRan
<1>1. TypeOK /\ InTurn
  BY DEF Delivering, Exact, InTurn
<1>2. ASSUME NEW r \in Requests, Step(r)
      PROVE  runtime'[n].container \in {"none", "created"} /\ runtime'[n].clone = "none"
  <2>1. requests[r] \in Request /\ Name(r) \in Names /\ Mine(r) \in Objects
    BY <1>1, <1>2, StepOfCall, CallInFlight
  <2>2. CASE n # Name(r)
    BY <1>1, <1>2, <2>1, <2>2, StepOfSandbox DEF OrphansNeverRan
  <2>3. CASE n = Name(r) /\ records[n] # NoRecord
    <3>1. DeleteRecord(r)
      BY <1>1, <1>2, <2>3, RecordsGoByDelete
    <3>2. requests[r].op = "remove" /\ At(r, "deleteRecord") /\ UNCHANGED runtime
      BY <2>1, <3>1, LabelTells DEF DeleteRecord, At
    <3>3. QED
      BY <2>3, <3>2 DEF Delivering, OnCourse, Course, RemoveCourse, At, Mine
  <2>4. CASE n = Name(r) /\ records[n] = NoRecord
    <3>1. Mine(r).container \in {"none", "created"} /\ Mine(r).clone = "none"
      BY <2>1, <2>4 DEF OrphansNeverRan, Mine
    <3>2. requests[r].op = "create" \/ At(r, "find")
      BY <1>1, <1>2, <2>1, <2>4, StepOfCall, LabelTells, CallFields
      DEF InTurn, Recorded, At, Operations
    <3>3. \/ CheckName(r) \/ ReadPolicy(r) \/ WritePolicy(r) \/ PutNew(r) \/ AddRemote(r)
          \/ Find(r) \/ MakeNetwork(r) \/ CreateContainer(r)
      BY <1>2, <2>1, <3>2, LabelTells
      DEF Step, At, Observe, PutState, DropRelay, RunRelay, AttachRelay, StartContainer,
          MakeClone, FinishClone, StopContainer, PutPorts, Unpublish, RunForwarder,
          DropForwarder, AttachForwarder, RmContainer, RmVolume, RmNetwork, DropRemote,
          DeleteRecord
    <3>4. CASE MakeNetwork(r)
      BY <1>1, <2>1, <2>4, <3>1, <3>4 DEF MakeNetwork, Command, Mine, TypeOK, Objects
    <3>5. CASE CreateContainer(r)
      <4>1. \/ runtime'[n] = Mine(r)
            \/ runtime'[n] = [Mine(r) EXCEPT !.container = "created", !.volume = TRUE]
        BY <1>1, <2>1, <2>4, <3>5 DEF CreateContainer, Command, Mine, TypeOK
      <4>2. QED
        BY <2>1, <3>1, <4>1 DEF Objects
    <3>6. CASE ~MakeNetwork(r) /\ ~CreateContainer(r)
      <4>1. UNCHANGED runtime
        BY <3>3, <3>6
        DEF CheckName, ReadPolicy, WritePolicy, PutNew, Put, AddRemote, Find
      <4>2. QED
        BY <2>4, <3>1, <4>1 DEF Mine
    <3>7. QED
      BY <3>4, <3>5, <3>6
  <2>5. QED
    BY <2>2, <2>3, <2>4
<1>3. ASSUME NEW r \in Requests, Call(r) PROVE UNCHANGED <<records, runtime>>
  BY <1>3 DEF Call, Begin
<1>4. ASSUME NEW m \in Names, ContainerExits(m)
      PROVE  runtime'[n] = runtime[n] /\ records'[n] = records[n]
  <2>1. UNCHANGED records /\ runtime[m].container = "running"
    BY <1>4 DEF ContainerExits
  <2>2. m # n
    BY <2>1 DEF OrphansNeverRan
  <2>3. QED
    BY <1>1, <1>4, <2>1, <2>2 DEF ContainerExits, TypeOK
<1>5. CASE UNCHANGED <<records, runtime>>
  BY <1>5 DEF OrphansNeverRan
<1>6. QED
  BY <1>2, <1>3, <1>4, <1>5 DEF Next, SetPolicy, DaemonDies, vars, OrphansNeverRan

(* When clients take turns, a container no record leads to has never run    *)
(* and holds no work, whatever is refused, cut short or killed: a create    *)
(* may leave one behind, but a remove deletes the record only once what it  *)
(* led to is gone (direct.Create, direct.Remove).                           *)
THEOREM OrphansAreInert ==
  ASSUME TakeTurns
  PROVE  Spec => []OrphansNeverRan
<1>1. Init => OrphansNeverRan
  BY DEF Init, OrphansNeverRan, Nothing
<1>2. QED
  BY <1>1, InitDelivering, DeliveringPreserved, InertPreserved, PTL DEF Spec

(* A sandbox whose remote is about to follow its record, or its record its *)
(* remote.                                                                 *)
Between(n) == \E r \in Requests : Name(r) = n /\ requests[r].pc \in {"addRemote", "deleteRecord"}

Followed ==
  /\ remotes \subseteq Clones
  /\ \A n \in Names :
       Between(n) \/ (n \in remotes <=> n \in Clones /\ records[n] # NoRecord)
  /\ \A r \in Requests :
       /\ At(r, "addRemote") => records[Name(r)] # NoRecord
       /\ At(r, "deleteRecord") => Name(r) \notin remotes

LEMMA RemoteSteps ==
  ASSUME TypeOK, "refused" \notin Faults, NEW r \in Requests, Step(r)
  PROVE  /\ At(r, "putNew") =>
              /\ requests'[r].pc = "addRemote" /\ UNCHANGED <<remotes, requests[r].name>>
              /\ records'[Name(r)] # NoRecord
         /\ At(r, "addRemote") =>
              /\ remotes' = IF Name(r) \in Clones THEN remotes \cup {Name(r)} ELSE remotes
              /\ UNCHANGED records /\ requests'[r].pc = "resting"
         /\ At(r, "dropRemote") =>
              /\ remotes' = remotes \ {Name(r)} /\ UNCHANGED <<records, requests[r].name>>
              /\ requests'[r].pc = "deleteRecord"
         /\ At(r, "deleteRecord") =>
              /\ records' = [records EXCEPT ![Name(r)] = NoRecord] /\ UNCHANGED remotes
              /\ requests'[r].pc = "resting"
         /\ requests[r].pc \notin {"putNew", "addRemote", "dropRemote", "deleteRecord"} =>
              /\ UNCHANGED remotes /\ ~PutNew(r) /\ ~DeleteRecord(r)
              /\ requests'[r].pc \notin {"addRemote", "deleteRecord"}
<1>1. Name(r) \in Names /\ requests[r] \in Request
  BY StepOfCall, CallInFlight
<1>2. CASE PutNew(r)
  <2>1. [status |-> "created", ports |-> {}] # NoRecord
    BY NoRecordAssumption DEF Record, Statuses
  <2>2. QED
    BY <1>1, <1>2, <2>1, GotoKeeps DEF PutNew, Put, Proceed, TypeOK, At
<1>3. CASE AddRemote(r)
  BY <1>1, <1>3, ReturnRests DEF AddRemote, At
<1>4. CASE DropRemote(r)
  BY <1>1, <1>4, GotoKeeps DEF DropRemote, At
<1>5. CASE DeleteRecord(r)
  BY <1>1, <1>5, ReturnRests DEF DeleteRecord, At
<1>6. CASE ~PutNew(r) /\ ~AddRemote(r) /\ ~DropRemote(r) /\ ~DeleteRecord(r)
  <2>1. UNCHANGED remotes
    BY <1>6
    DEF Step, Command, Put, CheckName, ReadPolicy, WritePolicy, MakeNetwork, CreateContainer,
        Find, Observe, PutState, DropRelay, RunRelay, AttachRelay, StartContainer, MakeClone,
        FinishClone,
        StopContainer, PutPorts, Unpublish, RunForwarder, DropForwarder, AttachForwarder,
        RmContainer, RmVolume, RmNetwork
  <2>2. requests[r].pc \notin {"putNew", "addRemote", "dropRemote", "deleteRecord"}
    BY <1>6
    DEF Step, At, CheckName, ReadPolicy, WritePolicy, MakeNetwork, CreateContainer,
        Find, Observe, PutState, DropRelay, RunRelay, AttachRelay, StartContainer, MakeClone,
        FinishClone,
        StopContainer, PutPorts, Unpublish, RunForwarder, DropForwarder, AttachForwarder,
        RmContainer, RmVolume, RmNetwork
  <2>3. ASSUME requests'[r].pc \in {"addRemote", "deleteRecord"} PROVE FALSE
    <3>1. requests'[r] \in Request
      BY TypesPreserved DEF TypeOK, Next
    <3>2. requests'[r].op = requests[r].op /\ requests[r].op \in {"create", "remove"}
      BY <2>3, <3>1, LabelTells, StepOfCall
    <3>3. CASE requests[r].op = "remove"
      BY <2>3, <3>3, <2>2, <3>2, RemoveMoves DEF Fails, Leads, At
    <3>4. CASE requests[r].op = "create"
      <4>1. requests'[r].pc = "addRemote"
        BY <2>3, <3>1, <3>2, <3>4, LabelTells
      <4>2. CheckName(r) \/ ReadPolicy(r) \/ WritePolicy(r) \/ MakeNetwork(r) \/ CreateContainer(r)
        BY <1>1, <1>6, <3>4, LabelTells
        DEF Step, At, Find, Observe, PutState, DropRelay, RunRelay, AttachRelay,
            StartContainer, MakeClone,
            FinishClone, StopContainer, PutPorts, Unpublish, RunForwarder,
            DropForwarder, AttachForwarder, RmContainer, RmVolume, RmNetwork
      <4>3. QED
        BY <4>1, <4>2, GotoKeeps, ReturnRests, ProceedEither
        DEF CheckName, ReadPolicy, WritePolicy, MakeNetwork, CreateContainer, Command
    <3>5. QED
      BY <3>2, <3>3, <3>4
  <2>4. QED
    BY <1>6, <2>1, <2>2, <2>3 DEF At
<1>7. QED
  BY <1>2, <1>3, <1>4, <1>5, <1>6

LEMMA StepKeepsFollowed ==
  ASSUME "refused" \notin Faults, InTurn, Followed, NEW r \in Requests, Step(r)
  PROVE  Followed'
<1>1. /\ TypeOK /\ Name(r) \in Names /\ ~At(r, "resting")
      /\ requests' \in [Requests -> Request]
  BY StepOfCall, CallInFlight, TypesPreserved DEF InTurn, TypeOK, Next
<1>2. /\ \A n \in Names \ {Name(r)} : /\ records'[n] = records[n]
                                      /\ n \in remotes' <=> n \in remotes
      /\ remotes' \subseteq Clones
  BY <1>1, StepOfSandbox, RemoteSteps DEF Followed, At
<1>3. \A q \in Requests \ {r} : requests'[q] = requests[q]
  BY <1>1, StepOfCall
<1>4. ASSUME NEW n \in Names \ {Name(r)}
      PROVE  Between(n)' \/ (n \in remotes' <=> n \in Clones /\ records'[n] # NoRecord)
  <2>1. Between(n) => Between(n)'
    BY <1>3 DEF Between, Name
  <2>2. QED
    BY <1>2, <2>1 DEF Followed
<1>5. Between(Name(r)) => requests[r].pc \in {"addRemote", "deleteRecord"}
  BY <1>1 DEF Between, InTurn, OneCallEach, At
<1>6. ASSUME NEW n \in Names, n = Name(r)
      PROVE  /\ Between(n)' \/ (n \in remotes' <=> n \in Clones /\ records'[n] # NoRecord)
             /\ requests'[r].pc = "addRemote" => records'[n] # NoRecord
             /\ requests'[r].pc = "deleteRecord" => n \notin remotes'
  <2>1. CASE At(r, "putNew")
    BY <1>1, <1>6, <2>1, RemoteSteps DEF Between, Name
  <2>2. CASE At(r, "addRemote")
    BY <1>1, <1>6, <2>2, RemoteSteps DEF Followed
  <2>3. CASE At(r, "dropRemote")
    BY <1>1, <1>6, <2>3, RemoteSteps DEF Between, Name
  <2>4. CASE At(r, "deleteRecord")
    BY <1>1, <1>6, <2>4, RemoteSteps DEF Followed, TypeOK
  <2>5. CASE requests[r].pc \notin {"putNew", "addRemote", "dropRemote", "deleteRecord"}
    BY <1>1, <1>5, <1>6, <2>5, RemoteSteps, RecordsComeAndGo DEF Followed
  <2>6. QED
    BY <2>1, <2>2, <2>3, <2>4, <2>5 DEF At
<1>7. ASSUME NEW q \in Requests
      PROVE  /\ requests'[q].pc = "addRemote" => records'[requests'[q].name] # NoRecord
             /\ requests'[q].pc = "deleteRecord" => requests'[q].name \notin remotes'
  <2>1. CASE q = r
    <3>1. requests'[r].pc # "resting" => requests'[r].name = Name(r)
      BY <1>1, StepOfCall DEF Name
    <3>2. PICK n \in Names : n = Name(r)
      BY <1>1
    <3>3. /\ requests'[r].pc = "addRemote" => records'[Name(r)] # NoRecord
          /\ requests'[r].pc = "deleteRecord" => Name(r) \notin remotes'
      BY <1>6, <3>2
    <3>4. QED
      BY <2>1, <3>1, <3>3
  <2>2. CASE q # r /\ ~At(q, "resting")
    <3>1. Name(q) \in Names \ {Name(r)}
      BY <1>1, <2>2, CallInFlight DEF InTurn, OneCallEach
    <3>2. QED
      BY <1>2, <1>3, <2>2, <3>1 DEF Followed, Name, At
  <2>3. CASE q # r /\ At(q, "resting")
    BY <1>3, <2>3 DEF At
  <2>4. QED
    BY <2>1, <2>2, <2>3
<1>8. \A n \in Names :
         Between(n)' \/ (n \in remotes' <=> n \in Clones /\ records'[n] # NoRecord)
  BY <1>4, <1>6
<1>9. \A q \in Requests :
         /\ At(q, "addRemote")' => records'[Name(q)'] # NoRecord
         /\ At(q, "deleteRecord")' => Name(q)' \notin remotes'
  BY <1>7 DEF Name, At
<1>10. QED
  BY <1>2, <1>8, <1>9 DEF Followed

LEMMA FollowedPreserved ==
  ASSUME {"refused", "crash"} \cap Faults = {}, InTurn, Followed, [Next]_vars
  PROVE  Followed'
<1>1. TypeOK
  BY DEF InTurn
<1>2. ASSUME NEW r \in Requests, Step(r) PROVE Followed'
  BY <1>2, StepKeepsFollowed
<1>3. ASSUME NEW r \in Requests, Call(r) PROVE Followed'
  <2>1. /\ UNCHANGED <<records, remotes>> /\ At(r, "resting")
        /\ requests'[r].pc \in {"checkName", "find"}
        /\ \A q \in Requests \ {r} : requests'[q] = requests[q]
    BY <1>1, <1>3 DEF Call, Begin, TypeOK
  <2>2. \A n \in Names : Between(n) => Between(n)'
    BY <2>1 DEF Between, Name, At
  <2>3. QED
    BY <2>1, <2>2 DEF Followed, Name, At
<1>4. CASE UNCHANGED <<records, remotes, requests>>
  BY <1>4 DEF Followed, Between, Name, At
<1>5. QED
  BY <1>2, <1>3, <1>4 DEF Next, SetPolicy, ContainerExits, DaemonDies, vars

(* When clients take turns and no call is refused or killed, the host       *)
(* repository has a remote for exactly the clone sandboxes that exist       *)
(* between calls, though commands be cut short (direct.addHostRemote,       *)
(* direct.dropHostRemote).                                                  *)
THEOREM RemotesAgree ==
  ASSUME TakeTurns, {"refused", "crash"} \cap Faults = {}
  PROVE  Spec => []RemotesMatchRecords
<1>1. Init => Followed
  BY DEF Init, Followed, Between, At, Resting
<1>2. InTurn /\ Followed /\ [Next]_vars => Followed'
  BY FollowedPreserved
<1>3. Followed => RemotesMatchRecords
  BY DEF Followed, Between, RemotesMatchRecords
<1>4. QED
  BY InitInTurn, TurnsPreserved, <1>1, <1>2, <1>3, PTL DEF Spec
=============================================================================
