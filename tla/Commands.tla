------------------------------ MODULE Commands ------------------------------
(***************************************************************************)
(* The commands of `plbx`, and the sessions of the ssh gateway, as the     *)
(* sequences of calls that they make on the service (cmd/plbx:             *)
(* lifecycle.go, run.go, create.go, ports.go, ls.go, root.go;              *)
(* internal/sshd: session.go, forward.go).                                 *)
(*                                                                         *)
(* A command is a process of its own, and others run between any two of    *)
(* its calls.  A call takes effect at once here (Sandboxes has what is     *)
(* inside one), except for what looks through all records: that reads the  *)
(* directory first and then one record after the other (internal/store).   *)
(* Whatever the service answers comes over the socket (Wire).              *)
(***************************************************************************)
EXTENDS Wire, Arguments

CONSTANTS
  Processes, (* the commands                                                *)
  Runs,      (* what they may be given to do: functions to Request          *)
  Stores,    (* the sandboxes there may be at first: functions of Names     *)
  Order,     (* the names, sorted                                           *)
  Paths,     (* directories of the host                                     *)
  DirName,   (* the name that a sandbox for a directory gets                *)
  Workspace, (* the directory that is mounted when a command without any    *)
             (* path is given in one: BuildSpec cuts it at a colon          *)
  Faults,    (* what can go wrong, see Fault                                *)
  NoName,    (* a reference by path, or no --name                           *)
  NoWhere    (* a reference by name                                         *)

LOCAL INSTANCE SequencesExt


(* "refused": a call fails and does nothing; "half": a start runs the      *)
(* sandbox and fails at its clone or its ports, a publish at the           *)
(* forwarder, a create at the remote; "nobody": there is no terminal.      *)
Fault == {"refused", "half", "nobody"}

Names == ToSet(Order)

ByName(n) == [name |-> n, path |-> NoWhere]

ByPath(d) == [name |-> NoName, path |-> d]

References == {ByName(n) : n \in Names} \cup {ByPath(d) : d \in Paths}

Mappings ==
  [host : 1 .. MaxPort, sandbox : 1 .. MaxPort, proto : {"", "tcp"}, bind : {""}]

Kind == {"start", "stop", "rm", "ls", "inspect", "ports", "create", "run", "exec", "forward", "cp"}

(* cwd is where the command was invoked, refs what its arguments name, and *)
(* name the --name of `run` and `create`.                                  *)
Request(kind, cwd, refs, name, add, drop, force) ==
  [kind |-> kind, cwd |-> cwd, refs |-> refs, name |-> name, add |-> add, drop |-> drop,
   force |-> force]

(* Only `ls`, `rm --all` and `create` name no sandbox, and `run` names what *)
(* its --name or its workspace does.                                       *)
Requests ==
  {r \in [kind : Kind, cwd : Paths, refs : Seq(References), name : Names \cup {NoName},
          add : Seq(Mappings), drop : Seq(1 .. MaxPort), force : BOOLEAN] :
     /\ ValidatePorts(r.add)
     /\ r.kind = "ls" => r.refs = <<>>
     /\ r.kind = "run" =>
          r.refs = <<IF r.name = NoName THEN ByPath(r.cwd) ELSE ByName(r.name)>>
     /\ r.refs = <<>> => r.kind \in {"ls", "rm", "create"}}

(* What becomes of a sandbox that is removed, and what there is of one     *)
(* that never was.                                                         *)
Box(path, status, ports) == [path |-> path, status |-> status, ports |-> ports]

Gone == Box(NoWhere, "gone", <<>>)

ASSUME CommandsAssumption ==
  /\ Faults \subseteq Fault
  /\ DirName \in [Paths -> Names]
  /\ Workspace \in [Paths -> Paths]
  /\ Order \in Seq(Names)
  /\ NoName \notin Names /\ NoWhere \notin Paths
  /\ \A i, j \in 1 .. Len(Order) : Order[i] = Order[j] => i = j
  /\ Runs \subseteq [Processes -> Requests]
  /\ Stores \subseteq
       [Names -> {Gone} \cup
                   [path : Paths, status : {"idle", "running"}, ports : Seq(Mappings)]]

VARIABLES
  boxes,  (* the sandboxes                                                  *)
  policy, (* whether a network policy has been chosen                       *)
  cmd,    (* each command                                                   *)
  was     (* what each sandbox has been while each command ran              *)

vars == <<boxes, policy, cmd, was>>

-----------------------------------------------------------------------------
(* Sandboxes                                                               *)

Exists(n) == n \in Names /\ boxes[n] # Gone

(* The record of a sandbox, and what a command makes of it. *)
Record(n, box, status) ==
  [spec |-> [ZeroSpec EXCEPT !.name = n,
                             !.workspaces = <<[host |-> box.path, readOnly |-> FALSE]>>],
   state |-> [ZeroState EXCEPT !.status = status],
   ports |-> box.ports]

Told(sb) ==
  [name |-> sb.spec.name,
   path |-> IF sb.spec.workspaces = <<>> THEN NoWhere ELSE sb.spec.workspaces[1].host,
   status |-> sb.state.status, ports |-> sb.ports]

Nothing == [name |-> NoName, path |-> NoWhere, status |-> "missing", ports |-> <<>>]

(* A record keeps its path and ports, and the runtime is asked how it is. *)
Observed(record) ==
  [record EXCEPT !.state.status = IF Exists(record.spec.name)
                                    THEN boxes[record.spec.name].status ELSE "missing"]

(* A sandbox changes, and every command that runs has seen it do so. *)
Become(n, box) ==
  /\ boxes' = [boxes EXCEPT ![n] = box]
  /\ was' = [p \in Processes |->
               IF cmd[p].pc \in {"begin", "done"} THEN was[p]
               ELSE was[p] \cup {<<n, box.status>>}]

Same == UNCHANGED <<boxes, was>>

-----------------------------------------------------------------------------
(* Commands.  todo: the references not yet dealt with; unread, scan: the   *)
(* records yet to be read, and those that have been; box: the sandbox that *)
(* the command is about; found: those it has resolved; failed: references  *)
(* it could not deal with; excused: whether the service failed a call      *)
(* without a reason; asked: what it has been told to remove; made: what it *)
(* created; joined: where it has a session.                                *)

Acts == {"start", "stop"}

(* Calls that a command fails with; it goes on if it cannot tell whether   *)
(* there is a policy.                                                      *)
Calls == {"choose", "look", "read", "pull", "create", "publish", "boot", "do", "exec", "copy"}

Idle(request) ==
  [req |-> request, pc |-> "begin", todo |-> request.refs, unread |-> {}, scan |-> <<>>,
   box |-> Nothing, found |-> <<>>, failed |-> {}, excused |-> FALSE, asked |-> {},
   made |-> NoName, joined |-> Nothing, out |-> "none"]

TypeOK ==
  /\ \A n \in Names :
       boxes[n] # Gone =>
         boxes[n].path \in Paths /\ boxes[n].status \in {"idle", "running"}
           /\ ValidatePorts(boxes[n].ports)
  /\ policy \in BOOLEAN
  /\ \A p \in Processes :
       /\ cmd[p].pc \in Calls \cup {"begin", "policy", "check", "ask", "done"}
       /\ cmd[p].out \in {"none", "ok", "error"}
       /\ cmd[p].out # "none" <=> cmd[p].pc = "done"
       /\ cmd[p].excused \in BOOLEAN
       /\ cmd[p].box.status \in {"idle", "running", "missing"}
  /\ was \in [Processes -> SUBSET (Names \X {"absent", "gone", "idle", "running"})]

Init ==
  /\ boxes \in Stores /\ policy = FALSE
  /\ \E r \in Runs : cmd = [p \in Processes |-> Idle(r[p])]
  /\ was = [p \in Processes |-> {}]

At(p, pc) == cmd[p].pc = pc

Set(p, c) == cmd' = [cmd EXCEPT ![p] = c]

Goes(c, pc) == [c EXCEPT !.pc = pc]

Ended(c, out) == [c EXCEPT !.pc = "done", !.out = out]

First(request) ==
  CASE request.kind \in {"run", "create"} -> "policy"
    [] request.kind = "forward" -> "exec"
    [] request.kind = "cp" -> "copy"
    [] OTHER -> "look"

Begin(p) ==
  /\ At(p, "begin")
  /\ Set(p, Goes(cmd[p], First(cmd[p].req)))
  /\ was' = [was EXCEPT ![p] =
               {<<n, IF Exists(n) THEN boxes[n].status ELSE "absent">> : n \in Names}]
  /\ UNCHANGED <<boxes, policy>>

(* `start`, `stop` and `rm` go on to the next, whatever became of this one *)
(* ("one bad name does not cancel the rest"), and end in an error if any   *)
(* failed.                                                                 *)
OnToNext(c) ==
  IF Tail(c.todo) # <<>>
    THEN [c EXCEPT !.todo = Tail(@), !.pc = IF c.req.kind = "rm" THEN "do" ELSE "look"]
    ELSE Ended(c, IF c.failed = {} THEN "ok" ELSE "error")

(* As Missed, with the first failure the end of it. *)
MissedAtOnce(c) == Ended([c EXCEPT !.failed = @ \cup {Head(c.todo)}], "error")

Missed(c) == OnToNext([c EXCEPT !.failed = @ \cup {Head(c.todo)}])

(* As Failing, with any error of the lookup taken for "there is none". *)
FailingOrNew(c, err) ==
  IF c.req.kind \in Acts \/ c.pc = "do" THEN Missed(c)
  ELSE IF c.req.kind = "run" /\ c.pc \in {"look", "read"} THEN Goes(c, "pull")
  ELSE Ended(c, "error")

(* A call fails.  `run` makes a sandbox when there is none. *)
Failing(c, err) ==
  IF c.req.kind \in Acts \/ c.pc = "do" THEN Missed(c)
  ELSE IF c.req.kind = "run" /\ c.pc \in {"look", "read"} /\ "NotFound" \in err
    THEN Goes(c, "pull")
  ELSE Ended(c, "error")

(* The service refuses a call, or the runtime does. *)
Refuse(p) ==
  /\ "refused" \in Faults /\ cmd[p].pc \in Calls
  /\ Set(p, Failing([cmd[p] EXCEPT !.excused = TRUE], Over({})))
  /\ Same /\ UNCHANGED policy

-----------------------------------------------------------------------------
(* Looking a sandbox up                                                    *)

(* `ls` and `rm --all` want all of them, and a path is looked for in all. *)
Scans(c) == c.todo # <<>> => Head(c.todo).name = NoName

(* What becomes of a command that has its sandbox. *)
Resolved(c, sb) ==
  LET kind == c.req.kind d == [c EXCEPT !.box = sb] IN
    CASE kind \in Acts -> Goes(d, "do")
      [] kind = "rm" ->
           [d EXCEPT !.found = Append(@, sb), !.todo = Tail(@),
                     !.pc = IF Tail(c.todo) = <<>> THEN "check" ELSE "look"]
      [] kind = "inspect" -> Ended(d, "ok")
      [] kind = "ports" ->
           IF c.req.add = <<>> /\ c.req.drop = <<>> THEN Ended(d, "ok") ELSE Goes(d, "publish")
      [] kind = "run" -> Goes(d, IF sb.status = "running" THEN "exec" ELSE "boot")
      [] kind = "exec" -> IF sb.status = "running" THEN Goes(d, "exec") ELSE Ended(d, "error")

Inspected(p, r) ==
  LET carried == CarrySandbox(r) IN
    Set(p, IF carried.err = NoError THEN Resolved(cmd[p], Told(carried.value))
                                    ELSE Failing(cmd[p], carried.err))

Look(p) ==
  /\ At(p, "look") /\ ~Scans(cmd[p])
  /\ LET n == Head(cmd[p].todo).name IN
       Inspected(p, IF Exists(n) THEN Reply(Record(n, boxes[n], boxes[n].status), NoError)
                                 ELSE Reply(Nothing, {"NotFound"}))
  /\ Same /\ UNCHANGED policy

ReadDir(p) ==
  /\ At(p, "look") /\ Scans(cmd[p])
  /\ Set(p, [cmd[p] EXCEPT !.pc = "read", !.unread = {n \in Names : Exists(n)}, !.scan = <<>>])
  /\ Same /\ UNCHANGED policy

Earliest(names) ==
  Order[CHOOSE i \in 1 .. Len(Order) :
          Order[i] \in names /\ \A k \in 1 .. i - 1 : Order[k] \notin names]

ReadNext(p) ==
  LET c == cmd[p] n == Earliest(c.unread) IN
  /\ At(p, "read") /\ c.unread # {} /\ Exists(n)
  /\ Set(p, [c EXCEPT !.unread = @ \ {n},
                      !.scan = Append(@, Record(n, boxes[n], boxes[n].status))])
  /\ Same /\ UNCHANGED policy

(* As Vanished, with what has been read so far taken for all there is. *)
VanishedEnough(p) ==
  LET c == cmd[p] IN
  /\ At(p, "read") /\ c.unread # {} /\ ~Exists(Earliest(c.unread))
  /\ Set(p, [c EXCEPT !.unread = {}])
  /\ Same /\ UNCHANGED policy

(* A record has gone since the directory was read: the lookup fails, and a *)
(* lookup by path with the error that says there is no such sandbox.       *)
Vanished(p) ==
  LET c == cmd[p] IN
  /\ At(p, "read") /\ c.unread # {} /\ ~Exists(Earliest(c.unread))
  /\ Set(p, Failing(c, Over(IF c.todo = <<>> THEN {} ELSE {"NotFound"})))
  /\ Same /\ UNCHANGED policy

(* All records have been read: the first with the path is the sandbox. *)
Match(p) ==
  LET c == cmd[p]
      matches == {i \in 1 .. Len(c.scan) :
                    c.scan[i].spec.workspaces[1].host = Head(c.todo).path}
      first == CHOOSE i \in matches : \A k \in matches : i <= k
  IN
  /\ At(p, "read") /\ c.unread = {} /\ c.todo # <<>>
  /\ Inspected(p, IF matches = {} THEN Reply(Nothing, {"NotFound"})
                                  ELSE Reply(Observed(c.scan[first]), NoError))
  /\ Same /\ UNCHANGED policy

(* `ls`, and `rm --all`, which has nothing to do when there is nothing. *)
List(p) ==
  LET c == cmd[p]
      carried == CarrySandboxes(Reply(EachOf(Observed, c.scan), NoError))
      all == EachOf(Told, carried.value)
      d == [c EXCEPT !.found = all]
  IN
  /\ At(p, "read") /\ c.unread = {} /\ c.todo = <<>>
  /\ Set(p, IF c.req.kind = "ls" \/ all = <<>> THEN Ended(d, "ok") ELSE Goes(d, "check"))
  /\ Same /\ UNCHANGED policy

-----------------------------------------------------------------------------
(* start, stop                                                             *)

StartErrors(n) ==
  {NoError} \cup IF "half" \notin Faults THEN {}
                 ELSE {{"CloneFailed"}} \cup
                      IF boxes[n].ports = <<>> THEN {} ELSE {{"PortsUnavailable"}}

(* A start whose ports could not be published is a start, for `start` and  *)
(* for `run`.                                                              *)
StartCall(p, n, then) ==
  LET c == cmd[p] IN
    IF ~Exists(n)
      THEN Set(p, Failing(c, CarryDone({"NotFound"}))) /\ Same
      ELSE /\ Become(n, [boxes[n] EXCEPT !.status = "running"])
           /\ \E err \in StartErrors(n) :
                LET told == CarryDone(err) IN
                  Set(p, IF told = NoError \/ "PortsUnavailable" \in told THEN then
                         ELSE Failing([c EXCEPT !.excused = @ \/ err = {"CloneFailed"}], told))

StartOne(p) ==
  /\ At(p, "do") /\ cmd[p].req.kind = "start"
  /\ StartCall(p, cmd[p].box.name, OnToNext(cmd[p]))
  /\ UNCHANGED policy

StopOne(p) ==
  LET c == cmd[p] n == c.box.name IN
  /\ At(p, "do") /\ c.req.kind = "stop"
  /\ IF Exists(n)
       THEN Become(n, [boxes[n] EXCEPT !.status = "idle"]) /\ Set(p, OnToNext(c))
       ELSE Same /\ Set(p, Failing(c, CarryDone({"NotFound"})))
  /\ UNCHANGED policy

-----------------------------------------------------------------------------
(* rm                                                                      *)

Targets(c) == {c.found[i].name : i \in 1 .. Len(c.found)}

Removing(c) ==
  [c EXCEPT !.asked = Targets(c), !.todo = [i \in 1 .. Len(c.found) |-> ByName(c.found[i].name)],
            !.pc = "do"]

(* What runs is refused before anybody is asked. *)
Check(p) ==
  LET c == cmd[p] IN
  /\ At(p, "check")
  /\ Set(p, IF c.req.force THEN Removing(c)
            ELSE IF \E i \in 1 .. Len(c.found) : c.found[i].status = "running"
              THEN Ended(c, "error")
            ELSE Goes(c, "ask"))
  /\ Same /\ UNCHANGED policy

(* The user says yes, or no, or there is nobody to say anything. *)
Ask(p) ==
  /\ At(p, "ask")
  /\ \/ Set(p, Removing(cmd[p]))
     \/ Set(p, Ended(cmd[p], "ok"))
     \/ "nobody" \in Faults /\ Set(p, Ended(cmd[p], "error"))
  /\ Same /\ UNCHANGED policy

(* As RemoveOne, with the answer taken for --force. *)
RemoveOneAnyway(p) ==
  LET c == cmd[p] n == Head(c.todo).name IN
  /\ At(p, "do") /\ c.req.kind = "rm"
  /\ IF Exists(n)
       THEN Become(n, Gone) /\ Set(p, OnToNext(c))
       ELSE Same /\ Set(p, Failing(c, CarryDone({"NotFound"})))
  /\ UNCHANGED policy

RemoveOne(p) ==
  LET c == cmd[p] n == Head(c.todo).name IN
  /\ At(p, "do") /\ c.req.kind = "rm"
  /\ IF Exists(n) /\ (c.req.force \/ boxes[n].status # "running")
       THEN Become(n, Gone) /\ Set(p, OnToNext(c))
       ELSE Same /\ Set(p, Failing(c, CarryDone({IF Exists(n) THEN "Running" ELSE "NotFound"})))
  /\ UNCHANGED policy

-----------------------------------------------------------------------------
(* ports, create, run                                                      *)

AfterPolicy(c) == IF c.req.kind = "run" THEN "look" ELSE "pull"

(* A policy is chosen first, unless there is one or it cannot be told. *)
EnsurePolicy(p) ==
  LET c == cmd[p] IN
  /\ At(p, "policy")
  /\ \/ ~policy /\ Set(p, Goes(c, "choose"))
     \/ (policy \/ "refused" \in Faults) /\ Set(p, Goes(c, AfterPolicy(c)))
  /\ Same /\ UNCHANGED policy

(* The answer is written over whatever policy there is by then; the user   *)
(* may leave the question.                                                 *)
ChoosePolicy(p) ==
  LET c == cmd[p] IN
  /\ At(p, "choose")
  /\ \/ policy' = TRUE /\ Set(p, Goes(c, AfterPolicy(c)))
     \/ UNCHANGED policy /\ Set(p, Ended(c, "error"))
  /\ Same

Pull(p) ==
  /\ At(p, "pull")
  /\ Set(p, Goes(cmd[p], "create"))
  /\ Same /\ UNCHANGED policy

(* Ports are not part of a spec: they are published once there is a        *)
(* sandbox.                                                                *)
Create(p) ==
  LET c == cmd[p]
      path == Workspace[c.req.cwd]
      n == IF c.req.name = NoName THEN DirName[path] ELSE c.req.name
      box == Box(path, "idle", <<>>)
  IN
  /\ At(p, "create")
  /\ IF Exists(n)
       THEN Same /\ UNCHANGED policy /\ Set(p, Failing(c, CarryDone({"Exists"})))
       ELSE /\ Become(n, box) /\ policy' = TRUE
            /\ \E err \in {NoError} \cup IF "half" \in Faults THEN {{"RemoteNotAdded"}} ELSE {} :
                 LET made == CarryCreated(Reply(Record(n, box, "idle"), err))
                     d == [c EXCEPT !.box = Told(made.value), !.made = n]
                 IN Set(p, IF c.req.add # <<>> THEN Goes(d, "publish")
                           ELSE IF c.req.kind = "run" THEN Goes(d, "boot")
                           ELSE Ended(d, "ok"))

(* As Wanted, without what is published already. *)
WantedAlone(c) == ApplyPorts(<<>>, c.req.add, c.req.drop)

Wanted(c) == ApplyPorts(c.box.ports, c.req.add, c.req.drop)

(* The record is written first: it stands even if the forwarder fails. *)
Publish(p) ==
  LET c == cmd[p] n == c.box.name IN
  /\ At(p, "publish")
  /\ IF ~Exists(n)
       THEN Same /\ Set(p, Failing(c, CarryDone({"NotFound"})))
       ELSE /\ Become(n, [boxes[n] EXCEPT !.ports = Wanted(c)])
            /\ \/ Set(p, IF c.req.kind = "run" THEN Goes(c, "boot") ELSE Ended(c, "ok"))
               \/ /\ "half" \in Faults /\ boxes[n].status = "running"
                  /\ Set(p, Failing(c, CarryDone({"PortsUnavailable"})))
  /\ UNCHANGED policy

Boot(p) ==
  /\ At(p, "boot")
  /\ StartCall(p, cmd[p].box.name, Goes(cmd[p], "exec"))
  /\ UNCHANGED policy

-----------------------------------------------------------------------------
(* run, exec, a session and a forward of the gateway, cp                   *)

SessionOf(c) == IF c.req.kind = "forward" THEN Head(c.todo).name ELSE c.box.name

Exec(p) ==
  LET c == cmd[p] n == SessionOf(c) IN
  /\ At(p, "exec")
  /\ Set(p, IF ~Exists(n) THEN Failing(c, CarryDone({"NotFound"}))
            ELSE IF boxes[n].status # "running" THEN Failing(c, CarryDone({}))
            ELSE Ended([c EXCEPT !.joined = Told(Record(n, boxes[n], "running"))], "ok"))
  /\ Same /\ UNCHANGED policy

Copy(p) ==
  LET c == cmd[p] IN
  /\ At(p, "copy")
  /\ Set(p, IF Exists(Head(c.todo).name) THEN Ended(c, "ok")
            ELSE Failing(c, CarryDone({"NotFound"})))
  /\ Same /\ UNCHANGED policy

-----------------------------------------------------------------------------
(* Specification                                                           *)

Lookup(p) == Look(p) \/ ReadDir(p) \/ ReadNext(p) \/ Vanished(p) \/ Match(p) \/ List(p)

Lifecycle(p) == StartOne(p) \/ StopOne(p) \/ Check(p) \/ Ask(p) \/ RemoveOne(p)

Making(p) == EnsurePolicy(p) \/ ChoosePolicy(p) \/ Pull(p) \/ Create(p) \/ Publish(p) \/ Boot(p)

Next ==
  \E p \in Processes :
    Begin(p) \/ Refuse(p) \/ Lookup(p) \/ Lifecycle(p) \/ Making(p) \/ Exec(p) \/ Copy(p)

Spec == Init /\ [][Next]_vars

-----------------------------------------------------------------------------
(* Properties                                                              *)

(* A sandbox comes out of the socket as it went in, a time that never was  *)
(* still none.  An error still is what it was if it was one thing, is      *)
(* never taken for what it was not, and never for success; a sandbox that  *)
(* lacks its remote comes with the error (errors.go:13-20, client.go:      *)
(* 65-78).                                                                 *)
ValuesSurvive ==
  /\ AnswersSurvive
  /\ \A n \in Names :
       LET record == Record(n, boxes[n], boxes[n].status) IN
         Exists(n) /\ IsSandbox(record) => Survives(record)

(* Sandboxes that were there all the while a command ran, and those that   *)
(* were there at some time; whether one was removed.                       *)
Throughout(p) == {n \in Names : {<<n, "absent">>, <<n, "gone">>} \cap was[p] = {}}

Sometime(p) == {n \in Names : {<<n, "idle">>, <<n, "running">>} \cap was[p] # {}}

Disturbed(p) == \E n \in Names : <<n, "gone">> \in was[p]

Succeeded(p, kind) == cmd[p].req.kind = kind /\ cmd[p].out = "ok"

(* A listing has everything that was there throughout, and nothing that    *)
(* never was; it fails only if the service refuses or something was        *)
(* removed meanwhile: store.go:112-121 reads the directory and then each   *)
(* record.                                                                 *)
ListingFaithful ==
  \A p \in Processes :
    /\ Succeeded(p, "ls") =>
         Throughout(p) \subseteq Targets(cmd[p]) /\ Targets(cmd[p]) \subseteq Sometime(p)
    /\ cmd[p].req.kind = "ls" /\ cmd[p].out = "error" => cmd[p].excused \/ Disturbed(p)

(* What is removed was named in a question that got a yes, and does not    *)
(* run, or it was --force (lifecycle.go:153-156 "a running sandbox is      *)
(* refused outright unless --force is given").                             *)
RemovedAsAsked ==
  [][\A n \in Names :
       boxes[n] # Gone /\ boxes'[n] = Gone =>
         \E p \in Processes :
           /\ cmd[p].pc = "do" /\ n \in cmd[p].asked
           /\ cmd[p].req.force \/ boxes[n].status # "running"]_vars

(* What `start`, `stop` and `rm` have brought a sandbox to. *)
Reached(p, n) ==
  LET goal == CASE cmd[p].req.kind = "start" -> "running"
                [] cmd[p].req.kind = "stop" -> "idle"
                [] OTHER -> "gone"
  IN <<n, goal>> \in was[p]

(* A command of several names tells the truth about each: what it does not *)
(* report as failed was done, and what it does could not be (lifecycle.go: *)
(* 66-67 "one bad name does not cancel the rest"); a start that only lacks *)
(* its ports has not failed (ports.go:110-112).                            *)
ReportsTruly ==
  \A p \in Processes :
    LET c == cmd[p]
        named == IF c.req.kind = "rm" THEN {ByName(n) : n \in c.asked}
                 ELSE {r \in ToSet(c.req.refs) : r.name # NoName}
    IN c.pc = "done" /\ c.req.kind \in Acts \cup {"rm"} =>
         /\ c.out = "ok" => c.failed = {}
         /\ \A r \in named \ c.failed : Reached(p, r.name)
         /\ \A r \in c.failed :
              \/ c.excused \/ Disturbed(p)
              \/ r.name = NoName \/ r.name \notin Throughout(p)
              \/ c.req.kind = "rm" /\ <<r.name, "running">> \in was[p]

(* `run` makes a sandbox only if none for the workspace was there all the  *)
(* while, and what it has a session in is of the workspace it was started  *)
(* in, or what --name asked for (run.go:24-26 "otherwise the existing one  *)
(* is reattached"), unless a sandbox was removed meanwhile.                *)
SessionIsOurs ==
  [][\A p \in Processes :
       LET c == cmd[p] IN
         c.req.kind = "run" /\ ~Disturbed(p) =>
           /\ c.req.name = NoName /\ cmd'[p].made # c.made =>
                \A n \in Throughout(p) : boxes[n].path # c.req.cwd
           /\ c.out = "none" /\ cmd'[p].out = "ok" =>
                cmd'[p].joined.path = c.req.cwd \/ cmd'[p].joined.name = c.req.name]_vars

(* Publishing and unpublishing leave the other ports of the sandbox alone, *)
(* as long as one command does so at a time and the sandbox stays          *)
(* (ports.go:97-107).                                                      *)
OthersPortsKept ==
  [][\A p \in Processes :
       LET c == cmd[p] n == c.box.name
           Named == {c.req.add[i].host : i \in 1 .. Len(c.req.add)} \cup ToSet(c.req.drop)
           Others(ports) == {q \in ToSet(ports) : q.host \notin Named}
       IN c.req.kind = "ports" /\ c.pc = "publish" /\ cmd'[p].out = "ok" /\ ~Disturbed(p) =>
            Others(boxes'[n].ports) = Others(boxes[n].ports)]_vars
=============================================================================
