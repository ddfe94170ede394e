# Planterbox in TLA+

Planterbox (`plbx`) runs coding agents in containers. A host daemon, `plbxd`, keeps a record
of every sandbox, drives a container runtime, filters what sandboxes may reach on the network
and answers to a command line, a dashboard and an ssh gateway. Nothing in it takes a lock
across two calls: correctness rests on the order in which files are written, runtime commands
are given, and listeners are opened and closed. This project models those orders, checks them
with TLC on small instances and proves what matters most with TLAPS for every instance.

- [1. The system](#1-the-system)
- [2. Modules](#2-modules)
- [3. Runs](#3-runs)
- [4. Fairness](#4-fairness)
- [5. Proofs](#5-proofs)
- [6. Where the code and its words part](#6-where-the-code-and-its-words-part)
- [7. What is not modelled](#7-what-is-not-modelled)
- [8. Plan](#8-plan)

## 1. The system

| component | code | state | operations |
|---|---|---|---|
| sandbox service | `internal/api/direct` | none of its own: the store's and the runtime's | Create, Start, Stop, Remove, Publish, SetPolicy; Exec, Copy, Stats, List, Inspect, PullImage |
| runtime driver | `internal/runner` | what the container runtime holds: a container, home volume, network, relay and port forwarder per sandbox | sequences of runtime commands; which failures are tolerated is decided here |
| store | `internal/store` | one file per record, the policy file, the ssh host key | Put, Find, List, Delete, Policy, SetPolicy; files are replaced atomically |
| daemon | `internal/daemon`, `cmd/plbxd` | a socket, a pidfile, an ssh socket, the proxy's TCP port | Serve, Connect, Start, Stop, Running |
| egress proxy | `internal/proxy` | requests in progress; the policy is read for each | CONNECT and plain HTTP; Check, lookup, dial |
| policy | `internal/proxy`, `cmd/plbx/policy.go`, `wizard.go` | one file: a preset and rules | allow, deny, rm, preset, first-run wizard, the dashboard's a and d, Create's default |
| connection log | `internal/proxy/log.go`, `collapse.go` | the last 500 decisions and a sequence number, in memory | Record, Since, Recent; Collapse |
| dashboard | `internal/tui` | the list, its cursor, samples, a network panel, what is pending | messages from the service, ticks, keys |
| gRPC transport | `internal/api/rpc` | streams | one call per service call; exec is a bidirectional stream |
| ssh gateway | `internal/sshd` | sessions | reads a sandbox's name, then ssh; a session is an Exec, a forward an Exec of a relay |
| relay | `cmd/plbx-relay` | connections | copies bytes between a sandbox's network and the proxy, and between a host port and a sandbox |
| command line | `cmd/plbx` | none | sequences of service calls; some read, change and write back |
| agents, images, arguments | `internal/api`, `cmd/plbx/parse.go`, `spec.go` | none | tables, parsing, validation |
| the rest | `internal/doctor`, `internal/ui` | none | read and print |

How they interact. A client (CLI, dashboard, ssh) calls the service over gRPC, or in-process
when given a state directory. The service asks the store for the record, gives the runtime a
sequence of commands, asks the runtime what state resulted and writes the record back. The
daemon owns the proxy, which asks the service for the policy on every request; sandboxes have
no route but their relay, which leads to the proxy. The proxy's log is polled by the dashboard.
Every gRPC call runs on a goroutine of its own.

What is hard, and what makes each part correct:

- *Service, driver, store.* A call is four to ten steps, each of which can fail, be interrupted,
  or be the last before the daemon dies; runtime objects depend on each other; the record a
  call writes back is the one it read at the start. Correct is: nothing is left that no record
  leads to; a success means what it says; ports are held as recorded; a running sandbox is not
  removed without `--force`; no container exists before a policy does.
- *Daemon.* Several commands may start a daemon at once and the three files are unlinked by
  path. Correct is: one daemon serves; none unlinks another's files; the pidfile names whoever
  answers; waits end.
- *Proxy and policy.* The verdict, the lookup and the dial are apart in time, and editors read,
  change and write a whole policy. Correct is: what is connected to was permitted and is not
  private; the log is complete and truthful; an edit changes what it was asked to; a deny wins.
- *Log and network panel.* Reads overlap, answers are reordered, the log and the panel forget.
  Correct is: no decision that is still held is passed over; the cursor, on which allow and
  deny act, stays where it was.
- *Dashboard.* Commands end in any order while keys are pressed. Correct is: keys wait for the
  action they would race, and no longer; the cursor follows its sandbox, or goes to the one just
  created.
- *Transport.* A session is one stream between two processes with six goroutines on it, and
  ends from any side. Correct is: the command reads what was typed, the user sees all that it
  wrote and is told its own exit code; the terminal ends up with the right size; the end of input
  arrives. Values and errors mean the same on both sides of the socket.
- *Relay, tunnel, ssh-proxy.* Two copiers per connection that end at different times. Correct is:
  an end is seen after everything that was sent before it, and is seen; nothing is kept when both
  ends are done.
- *Command line.* A command is several calls, and other commands come in between. Correct is: a
  listing has what was there throughout; what is removed was named in a question; what is
  reported is what happened; `run` reattaches to its own workspace's sandbox; ports that a command
  does not name stay.

`PROJECT.json` lists the hazards line by line, with the properties that would notice.

## 2. Modules

| module | models | abstract or detailed |
|---|---|---|
| `Catalogue` | what users see of the service's port handling | abstract specification |
| `Sandboxes` | service, runtime driver and store | implements `Catalogue` (property `KeepsPromise`) |
| `Daemon` | Serve and the commands that start, find and stop it | |
| `Policy` | verdicts and edits, as operators | used by `Proxy` |
| `Proxy` | requests through the proxy beside edits of the policy | |
| `Feed` | the log, its folding, and the panel that polls it | |
| `Dashboard` | the list of sandboxes, its keys and commands | |
| `Session` | what a session in a sandbox promises its user | abstract specification |
| `Exec` | the exec stream, its two ends, and the command behind it | implements `Session` (property `KeepsPromise`) |
| `Tunnel` | one connection through relay, proxy tunnel and ssh-proxy | |
| `Wire` | errors and values across the socket, as operators | used by `Commands` |
| `Arguments` | names, workspaces, ports, copies, environments, specs, as operators | used by `Commands` |
| `Commands` | the commands of `plbx` as sequences of calls | over `Wire` and `Arguments` |
| `MC...`, one for each of the state machines | constants, symmetry and bounded inputs for TLC | |
| `SandboxesProofs`, `DaemonProofs`, `ProxyProofs`, `ExecProofs`, `FeedProofs`, `TunnelProofs`, `DashboardProofs`, `CommandsProofs` | theorems | |

**Sandboxes.** A call in flight is a request with a label: the next call its handler makes on
something shared, in the order the handler makes them (`LabelsOf`). `records`, `policy` and
`remotes` are the files; `runtime` is what the container runtime holds. A step is one store call
or one runtime command, so handlers of different requests interleave at exactly the points where
the code can. `snap` is the Go variable `sb`: what the handler read, and will write back. A
runtime command is an instance of `Command`, which says what it does, what it tolerates and where
control goes if it fails, is interrupted after taking effect ("lost"), or is refused. `TakeTurns`
restricts the clients, not the service, to one call at a time per sandbox. The clone script is two
steps, from nothing to part of a clone and from there to the whole, so that a container that
exits or a daemon that dies in the middle leaves a part. A status may be "unknown", which is what
`Inspect` makes of a runtime's word it does not know.

**Catalogue.** Five actions (Register, Publish, Hold, Release, Forget) over the ports a record
names and the host ports held. `Sandboxes` maps `wanted` to the records' ports and `held` to the
forwarders' ports. A forwarder holds what its record names, or nothing.

**Daemon.** A daemon is at a stage of `Serve`, each stage being one call that touches the
socket's path, the pidfile, the ssh socket or the proxy's port; its deferred calls are stages
too, in the order Go runs them. A command (`use`, `start`, `stop`, `restart`) goes through
Connect, Start and Stop with their waits. Files hold the process that made them; only the port
excludes. A wait of ten seconds ends while its daemon is at work only with the fault "slow": without
it, a daemon is taken to do within ten seconds what takes it a few calls.

**Policy.** A host is a sequence of labels, a pattern one of `*`, `*.zone` and a host, with or
without port. `Check` is the order of `Policy.Check`: private addresses, deny rules, allow
rules, preset. A target's trailing dot is dropped and a pattern's is not, so the dot is kept.

**Proxy.** A request goes through the steps of `open`: policy read and verdict (one step: the
policy is read once per request), lookup, and one step per address. An editor reads the policy
in one call and writes it in another; the commands differ in what they do when there is none
(`Outcome`). `permitted` is a history variable: it records whether the policy in force allowed
the target at some moment between the request's arrival and its verdict.

**Feed.** `Record` and `Since` run under the log's mutex and are one step each. A read is asked
(with the sequence number current at the tick), answered by the daemon, and delivered to the
panel's loop: three steps, which two reads may interleave. `shown` is a history variable.
`Collapse` is checked against what it is documented to return over every history up to the
bound.

**Dashboard.** The loop applies one message at a time, and every command runs beside it in a
slot. A command is sent, answered by the service, and its message applied; `Follow` starts the
commands that a message leads to. `Elsewhere` is any other client. The form is modelled by its
outcome: while it is open it takes every key, so nothing tells whether it was opened early or
late.

**Exec.** The client's side is `hostStreams`, `Client.Exec`, `relayStdin`, `relayResize` and
`receive`; the daemon's is `Server.Exec`, `serveFrames` and what the executor starts beside the
command. Each goroutine is a program counter (`client`, `handler`, `loop`, `copier`), and what
joins them is what joins them in the code: a stream of frames each way, a channel of sizes with
room for one at either end, a pipe with no room. A goroutine that is blocked has no enabled
action: `LoopRecv` goes to `write` and stays there until the copier reads, which is how a command
that reads nothing stops sizes too. Input and output are numbered pieces, and so are sizes, so
that order and loss can be seen. What the command and the user do is external.

**Session.** Six variables and seven actions: input is typed and read in order, output written and
shown in order, the command ends, the user is told its code after all of its output, or told that
the session failed. `Exec` has variables of these names, and everything else in it is hidden.

**Tunnel.** A route is a sequence of hops. Relay, proxy tunnel and ssh-proxy have the same two
copiers, so that one set of actions (`Dial`, `Copy`, `CopyEnds`, `CopyFails`, `HopEnds`) is all
three; they differ in when they may be dialled, in what is said first (ssh-proxy the sandbox's
name, the proxy its answer to CONNECT) and in whether the near end is told that there is no more
(`TellsEnd`). A link is a connection: what it holds either way, and whether that way has been shut
or the connection broken. The relay's own run listens for its ports in turn, serves, and exits on
a signal. The gateway's reading of a name is at the far end of an ssh route.

**Wire, Arguments.** Conversions, by what they do. An error is the set of sentinels `errors.Is`
finds in it; it crosses as one code. A name is a sequence of three kinds of character, which is
all the code tells apart; an argument with colons is what they separate. A path is what it starts
with, its names, and what follows its first colon if it has one; the working directory is a path
like any other, since `buildSpec` reads it as an argument when there is none.

**Commands.** A command is a process with a label, the call it makes next. Calls take effect at
once, since what happens inside of one is `Sandboxes`; but the listing of all records is a read of
the directory and one of each record, which other commands may come between. What a command is
told has been through `Wire`, what it was asked through `Arguments`. `was` is a history variable: for each
command, the states that every sandbox has been in while it ran. `Workspace` is what `BuildSpec`
makes of a directory that `plbx` is run in: the directory itself, or what is before the colon. The
look for a policy and the writing of the one chosen are two steps, with the user's answer
between them.

## 3. Runs

States are those TLC found distinct, on 2 workers.

| run | instance | states | what it shows |
|---|---|---|---|
| `turns` | 1 sandbox, 2 ports, 1 call at a time, all faults, with proxy, clone mode | 414 thousand | what success means for Start, Stop, Publish and Remove, that no relay, forwarder or container that has run is left without a record, that a policy comes before a container and that a whole clone is left alone, whatever is refused, interrupted or killed |
| `pair` | 2 sandboxes after 1 port, 2 calls in flight, no faults | 224 thousand | the service implements `Catalogue`; no remote without a sandbox, and none missing |
| `daemon_races` | 3 process ids, 2 commands, all faults | 553 thousand | one daemon serves and cleans up only after itself, and the pidfile is right |
| `daemon_turns` | the same, one command looking at a time, fair | 139 thousand | the daemon can be reached, waits end |
| `drain` (violation) | 3 process ids, a session on the daemon that is restarted, no faults | | `restart` ends with no daemon |
| `policy` | 1 request, 1 editor, 3 targets, up to 2 addresses, store failures | 1.5 million | what is connected to was permitted and is public, the log is truthful, edits do what they say |
| `feed` | 2 reads, 2 sandboxes, log and panel of 2, 3 entries, fair | 60 thousand | nothing passed over, the cursor stays, folding is right, every decision shows |
| `keys` | 2 sandboxes, 2 commands in flight, all keys and other clients | 1.2 million | the cursor follows, no key is refused for an action that is over |
| `keys_race` (violation) | 2 sandboxes, 2 commands in flight, the keys that start and create | | two actions on one sandbox, by two keypresses |
| `session` | 1 session, with or without a terminal, 2 pieces of input, 2 sizes, all faults, fair | 233 thousand | the stream implements `Session`; the terminal is sized before the command starts and ends up with the user's size; the end of input arrives |
| `tunnel` | 1 connection by relay, by relay and proxy, or by ssh; 2 pieces each way, ports that can be served and ports that cannot, all faults, fair | 122 thousand | nothing is cut off or put out of order, the end arrives, nothing is kept |
| `commands` | 2 commands of 18, 3 names, 2 directories, all faults | 295 thousand | arguments and messages mean what they meant, listings are faithful, commands report and remove truthfully, ports and sessions are the ones asked for |

The properties, by module:

- `Sandboxes`: `SidecarsHaveRecord`, `PolicySettled`, `StopTakesPortsOff`, `RemoveLeavesNothing`,
  `StartDelivers`, `PublishDelivers`, `OrphansNeverRan`, `CloneKept`, `RemotesMatchRecords`,
  `KeepsPromise`.
- `Daemon`: `OneDaemonServes`, `CleansUpItsOwn`, `PidNamesAnswering`, `ReachableWhileServing`,
  `WaitsEnd`; violated: `RestartSucceeds`.
- `Proxy`: `OpenWasPermitted`, `EveryOutcomeRecorded`, `ChoicesSurvive`, `DenyTakesHold`.
- `Feed`: `NothingPassedOver`, `CursorStays`, `FoldedRight`, `EveryDecisionShows`.
- `Dashboard`: `CursorFollows`, `KeysComeBack`; violated: `NoRacingKeys`.
- `Exec`: `KeepsPromise`, `OpensSized`, `LastSizeArrives`, `InputEnds`.
- `Tunnel`: `EndMeansAll`, `EndArrives`, `LetsGo`.
- `Commands`: `ListingFaithful`, `RemovedAsAsked`, `ReportsTruly`, `SessionIsOurs`,
  `OthersPortsKept`, `ValuesSurvive`; in `MCCommands`, over bounded inputs, `ArgumentsMean`.

Each is stated in words above its definition. Every property of a passing run has a mutant: a
variant of one definition, kept beside it or in a section of its own, with a mistake that the
property notices. Nothing uses the variants. Each module's `TypeOK` holds in its runs as well and
says what its variables range over; `RunningNeedsForce` of `Sandboxes` and `OneRulePerPattern` of
`Proxy` are stated and proved (section 5), and no run spends its time on them.

**Bounds, and why they are enough.**

- *Sandboxes.* Sandboxes touch each other only through host ports and the policy file, so two of
  them and one port have every conflict; one sandbox and two ports have every change of a
  published set. Two calls in flight interleave pairwise, which is what every race named in the
  code needs. The theorems of section 5 have no such bound.
- *Daemon.* Three process ids: one being replaced, one replacing it and one competitor. A pid
  is free again once its process has ended and neither pidfile nor command names it. Two commands.
- *Proxy.* One request and one editor: a request reads the policy once and editors never read
  what a request does, so that further requests are copies; further editors break
  `ChoicesSurvive` (section 6). The targets are a name below one the balanced preset
  lists, asked for with a trailing dot; a name that the preset does not list, which only a user's rule
  or the open preset lets through; and a private address. The pattern of a user's rule is
  everything on one port, and the dashboard's patterns come from the log. Two addresses have
  each kind before each other. The log keeps one entry (500 in the code): what reaches it is
  told by each step.
- *Feed.* Two reads in flight, three entries, and a log and a panel of two (500 and 200), so
  that both drop entries while reads overlap. `MaxSeq` bounds what the daemon records.
- *Dashboard.* Two slots for commands. A tick, or what follows from a message, finds no slot when
  both are taken and waits; two commands overlap in every order. Two names, so that the cursor
  has somewhere to slip to. Listings start with sandboxes that run or are not there; other
  clients soon have them in every state.
- *Exec.* Two pieces of input (`MaxTyped`) and room for one at the command (`InputRoom`), so that
  input backs up through copier, loop and stream; two sizes (`MaxSizes`), the first and a change;
  one piece for each output (`MaxPrinted`); two frames on the way (`Window`), so that the
  client's senders block. Exit codes are the zero value and one other.
- *Tunnel.* Two pieces from either end (`MaxSent`) and room for one on a link (`Room`), so that a
  copier holds one back while another is on its way. The routes are those there are: a published
  port, a sandbox's way out through its relay and the proxy, and ssh.
- *Commands.* Two commands at a time, of which one at most edits ports (`OthersPortsKept` is about
  one). Three names and two directories, so that a directory may have no sandbox, one, or two.
  `MaxName` (3 for 63) and `MaxPort` (3 for 65535) are small so that the inputs beside and beyond
  them are enumerated: names up to two characters longer, ports 0, 1, the last and the one after.
  `Answers`, the sandboxes that cross the socket, are every spec, state and set of ports of a few
  values, each part beside one form of the others, for the parts cross apart.

Deadlock is checked where the system cannot stop: all runs of `Sandboxes`, `Daemon`, `Proxy`, `Feed`
and `Dashboard`. A session, a connection and a set of commands do end, and the three runs about
them say `CHECK_DEADLOCK FALSE`.

## 4. Fairness

- `Daemon`, `FairSpec`: weak fairness of each daemon's own steps and each command's own steps.
  Processes are scheduled; a wait's timeout is one of the command's steps. Nothing is assumed of
  users: a command may stay in its session forever, and none need begin. That is what `WaitsEnd`
  is about: `Stop` waits for the socket, which closes at once, and never for sessions.
- `Feed`, `FairSpec`: weak fairness of asking (`connTick` re-arms itself with every message it
  handles) and of delivering (bubbletea's loop takes every message); strong fairness of
  answering, since a read may fail any number of times without all of them failing. Decisions
  and keys may never happen.
- `Exec`, `FairSpec`: weak fairness of every goroutine's own steps; strong fairness of the client's
  three senders, which take turns on one stream with a window (the mutex of `frameSender` is handed on,
  and none starves). A command that is left running reads its input in the end (`CmdReads`): that
  is an assumption about commands, needed because one that never reads stops the loop that sizes
  and the end of input go through (section 6). It may stop reading for good or end instead;
  what it prints, and what users do, is free.
- `Tunnel`, `FairSpec`: weak fairness of copiers, of dialling, of a hop's end, of the gateway and of the
  ends' reading. Whether an end sends, shuts its side or leaves is its own affair.
- All other runs check safety only and assume no fairness.

## 5. Proofs

Every theorem is checked by TLAPS to the last leaf, and holds for every value of the constants
within the modules' assumptions (`ConstantsAssumption`, `NoRecordAssumption`,
`PolicyAssumption`, `ProxyAssumption`, `ExecAssumption`, `FeedAssumption`, `TunnelAssumption`,
`DashboardAssumption`, `WireAssumption`, `CommandsAssumption`), which say no more than that the
constants have their types, that the values standing for "none" are none of the others, that an ssh
connection goes through its last hop to the gateway, that listings have one order, that what the
service answers with has the fields of a sandbox (`IsSandbox`), and that commands are given what
their parser lets through (`Requests`: only `ls`, `rm --all` and `create` name no sandbox, and `run`
names what its `--name` or its workspace does).

| module | theorem | of | further assumption |
|---|---|---|---|
| `SandboxesProofs` | `TypeCorrect` | `TypeOK` | |
| | `PolicyIsSettled` | `PolicySettled` | |
| | `RunningGoesByForce` | `RunningNeedsForce` | |
| | `SidecarsAreFindable` | `SidecarsHaveRecord` | `TakeTurns` |
| | `ServiceKeepsPromise` | `KeepsPromise` (refinement) | `TakeTurns` |
| | `StartsDeliver`, `StopsTakePortsOff`, `RemovesLeaveNothing`, `PublishesDeliver` | `StartDelivers`, `StopTakesPortsOff`, `RemoveLeavesNothing`, `PublishDelivers` | `TakeTurns` |
| | `ClonesAreKept` | `CloneKept` | |
| | `OrphansAreInert` | `OrphansNeverRan` | `TakeTurns` |
| | `RemotesAgree` | `RemotesMatchRecords` | `TakeTurns`, no fault "refused" or "crash" |
| `DaemonProofs` | `TypeCorrect`, `OnlyOneServes`, `CleanUpIsSafe`, `PidIsRight` | `TypeOK`, `OneDaemonServes`, `CleansUpItsOwn`, `PidNamesAnswering` | |
| | `ServingIsReachable` | `ReachableWhileServing` | `TakeTurns`, no fault "interrupt" or "slow" |
| `ProxyProofs` | `TypeCorrect`, `OpenIsVetted`, `OneRuleEach`, `DecisionsAreLogged`, `DenialHolds` | `TypeOK`, `OpenWasPermitted`, `OneRulePerPattern`, `EveryOutcomeRecorded`, `DenyTakesHold` | |
| | `SoleEditorKeepsChoices` | `ChoicesSurvive` | `SoleEditor`, `DaemonAnswers` |
| `ExecProofs` | `TypeCorrect`, `TerminalOpensSized` | `TypeOK`, `OpensSized` | |
| | `SessionIsImplemented` | the safety half of `KeepsPromise`, `Promise!Safe` (refinement) | |
| `FeedProofs` | `TypeCorrect`, `NothingIsPassedOver`, `CursorIsKept` | `TypeOK`, `NothingPassedOver`, `CursorStays` | |
| `TunnelProofs` | `TypeCorrect`, `EndsMeanAll` | `TypeOK`, `EndMeansAll` | |
| `DashboardProofs` | `TypeCorrect`, `KeysAreFreed`, `CursorIsTold` | `TypeOK`, `KeysComeBack`, `CursorFollows` | |
| `CommandsProofs` | `ListingIsFaithful`, `ReportsAreTrue` | `ListingFaithful`, `ReportsTruly` | |
| | `NothingElseRemoved`, `ValuesAreKept` | `RemovedAsAsked`, `ValuesSurvive` | |
| | `SessionsAreOurs` | `SessionIsOurs` | `Workspace[d] = d` for every directory d: none has a colon in its name |

The further assumptions are those under which the properties hold: TLC finds a counterexample in
the model without them, and section 6 has the histories. `TakeTurns` is what one user at a terminal
does; a fault that is left out is one after which the code does not undo what it did.

The inductive invariants, and why the properties are not inductive alone:

- `PolicySettled` says nothing of a Create that is about to make a container. `Settled` adds that
  one past `settlePolicy` has seen or written a policy, and no call takes one away.
- `SidecarsHaveRecord` does not say why Remove may delete the record. `InTurn` adds that a
  sandbox has one call at a time, that a call past its find has a record to come back to, and what Remove has
  taken down by the time it gets to each label.
- `KeepsPromise` needs that a call writes back the ports as they are. `Exact` adds to `InTurn`
  that the copy a call holds agrees with the record, that a Create under way has a name nobody
  has, and that only a forwarder that is there holds ports. Five kinds of step then map to the
  five actions of `Catalogue`, all others to stutters.
- `OneDaemonServes`, `CleansUpItsOwn` and `PidNamesAnswering` follow from `Owned`: the port is
  held by exactly the daemon past listening on it, a listener is open exactly while its daemon
  serves, and what is taken down is taken down by the holder of the port.
- `OpenWasPermitted` needs `Vetted`, which has every request past its verdict permitted, and
  `OneRulePerPattern` needs `Sound`, which has the copy in an editor's hands hold one rule per
  pattern as well, whatever the file has become meanwhile. `ChoicesSurvive` needs `UpToDate`: the
  copy of a sole editor is an edit of the file as it still is.
- `OpensSized` only speaks of a command that exists. `Sizing` follows the size there: it is in the
  client's channel, then in the first frame, then in the daemon's channel, and a terminal's is
  never 0 on the way. It also has the first frame be the only start, without which the types do
  not hold either: the loop would have no case for a second one. `Coded` adds that a command
  that ended while its client was there has an exit code, so that what is sent is one.
- `Exec` implements `Session` because no piece is ever between two buffers or in two. `InOrder`
  says so of the input while the command reads: what it has read, what it has been fed, what the
  copier holds, what the loop holds and the frames on their way are numbered without a gap. `Flow`
  says it of each output, whatever is between its frames, and that an exit code on its way is the
  command's own with no output behind it. Reading, writing, showing, exiting and being told then
  map to the actions of `Session`, and everything else in `Exec` to a stutter.
- The delivery properties speak of the step that reports success, and everything before it is
  interleaved with other sandboxes and with faults. `Delivering` says of each label of each
  operation what has been brought about by the time a call is there: a relay that is up and attached
  before `Publish` is reached, ports taken off before the container stops, and so on. Whatever an
  earlier failed call left behind is why it says nothing of what a call has not yet touched.
- `OrphansNeverRan` rests on `Delivering`: a call that starts a container has a record to come back to,
  and by the time Remove deletes it the container and the volume with the clone are gone. `CloneKept`
  needs no invariant but the types: `RmVolume` is the only step that takes a whole clone
  (`ClonesGoByVolume`). `RemotesMatchRecords` needs `Followed`: which calls have changed the
  remotes and are yet to change the record, or the reverse, and that no other call can see them.
- `ReachableWhileServing` needs `Orderly`: of commands that take turns, the one at work has seen
  that nobody serves before it launches a daemon, and no daemon that was launched earlier is still
  on its way up. A wait that is interrupted, or ends before its daemon is up, breaks the second half,
  hence the assumption.
- `NothingPassedOver` needs `Unbroken`: what an answer in flight lists is all that the log held
  after the number it was asked from, and that number is one up to which all has been shown or
  dropped. `Picked`, by which `Since` and `VisibleIn` are defined, takes the entries of a sequence at
  a set of places; what it returns is proved by counting the places before each.
- `EndMeansAll` compares the first link's sender with the last link's reader, any number of hops
  apart. `Carried` has a tally: for each direction and link, how many pieces have been taken off it,
  so that each link holds a run of the numbers from one tally to the one before, and an end passed on
  by a hop means that the tally before it is all there was.
- `KeysComeBack` and `CursorFollows` follow from `Steady`: an action in flight has the name of a
  sandbox, the cursor is on a row while there are rows, and what is pending is in flight. That it is on the same sandbox again after
  rows have moved is `OneRowEach`: no two sandboxes of a listing have the same row.
- The properties of `Commands` compare what a command ends with to what has been while it ran, and
  others change sandboxes all the while. `Truthful` has, for a command at any of its calls, what it
  knows of that. `Reading`: each record it is yet to read was there at some time, and each that was
  there all along is yet to be read or has been. `Acting` and `Removal`: each name it was given is yet
  to be dealt with, was brought where it should be, or has failed for a reason that holds (`Excuse`).
  `Ours`: a `run` about to make a sandbox has found none for its workspace that was there all along, and one
  about to open a session has a sandbox that is its own. What others do only adds to what has been
  (`Later`), and every part is such that adding keeps it (`GoesOn`); so that each action is proved
  for the command that takes it alone. That `run` finds the first match among the records takes that a
  set of places has a first (`FirstPlace`), which is proved by counting, without induction. So
  does `ValuesAreKept`: an error crosses as the first sentinel it is (`FirstComesOver`). It speaks of
  sandboxes that have their fields (`IsSandbox`); that all records have is part of `ArgumentsMean`.

Only model-checked. Liveness (`WaitsEnd`, `EveryDecisionShows`) rests on fairness and ENABLED,
which the prover does not handle; so do `LastSizeArrives`, `InputEnds`, `EndArrives`, `LetsGo`
and the liveness half of `Exec`'s `KeepsPromise`. `FoldedRight` and most of
`ArgumentsMean` are about what folds, filters and sorts compute, over bounded inputs: inductions over
data. `OthersPortsKept`, and that the ports of a record stay valid (`TypeOK` of `Commands`), rest on
`ApplyPorts`, which is a fold, a filter and a sort, and the prover has no definition of
the last two.

## 6. Where the code and its words part

Two are runs, listed in `PROJECT.json` as findings with the words each contradicts:

1. *A restart beside an open session ends with no daemon* (`drain`). `Stop` returns when the
   socket goes quiet, and the old daemon keeps the proxy's port until sessions end.
2. *A create frees the keys for everything* (`keys_race`). It ends with the message that ends an action,
   and that clears what is pending, whichever action it was for (`model.go:235`): a second keypress races
   the first, though `keys.go:38-40` says that it cannot.

The models also reach the following, none of which is a run:

*Service, daemon, policy and dashboard*

- A daemon that does not answer reads as "no policy". `ErrNoPolicy` is sent as
  `codes.Unavailable` (`errors.go:32`), which gRPC also reports for a connection that is lost;
  `allow`, `preset` and the wizard then write over the rules.
- Sequence numbers repeat when a daemon is replaced, though `log.go` says they never do: a
  dashboard that outlives a daemon does not ask for what its successor records first.
- A Publish between a Start's or Stop's reading of the record and its writing it back is lost
  (`direct.go:239`), though `direct.go:165-166` says the set survives. `KeepsPromise` holds with
  `TakeTurns` only.
- A Create cut short after its container exists leaves it without a record (`direct.go:55-60`):
  Create of the name then fails, and Remove finds nothing, though `main.go:31` says that Ctrl-C
  "should unwind cleanly rather than orphan a container". Such a container has never run
  (`OrphansNeverRan`).
- A Publish or Start that overlaps a Remove writes the record back after it was deleted; a
  Publish that saw the sandbox run leaves a forwarder behind a Stop.
- Of two commands that need a daemon, `Connect` can fail one with "already running" because the
  other has just started it (`connect.go:99`), though `connect.go:40-41` says that it starts one
  if nothing is listening.
- Serve looks whether anybody answers and clears the path in two steps (`serve.go:68-72`); the socket
  that another daemon has bound in between is unlinked, though `serve.go:71` takes what is there for
  a corpse. The second daemon then fails on the proxy's port, and the first serves where nobody
  finds it. `ReachableWhileServing` is checked for commands that look one at a time.
- A clone cut short leaves a `.git`, which the next Start takes for a clone (`clone.go:44`) and reports
  success over, though `clone.go:64` says that the clone is made if there is none.
- Two overlapping edits of the policy lose one; Create's `settlePolicy` can replace a choice made
  between its two steps.
- When the policy cannot be read, balanced decides, which permits more than locked-down does.
- A name that was allowed and whose addresses do not answer is answered 403, since `open` returns
  a verdict with only a reason; `proxy.go:259-260` says that is the upstream's problem and a 502.
- A rule with a trailing dot never matches (`Matches` trims only the target), so `a` on a host
  that was asked for with one has no effect. A rule that differs from another only in letter case
  does not replace it, though both match the same hosts.
- Two reads of the log in flight show entries twice and may set the sequence number back.
- With the filter on, a listing that moves the selection in the list leaves the network cursor's
  index on another entry, which allow and deny then act on.
- Samples are read once per start of a sandbox: `applyListing` samples only what has no sample,
  though `sample`'s comment says the next refresh does it again.

*Sessions and connections*

- A command that neither reads nor ends, with input typed ahead of it, blocks `serveFrames` in its
  write to the pipe (`exec.go:209`): sizes and the end of input wait behind it. If the copier
  ends first, nobody ever reads the pipe, and the loop outlives the stream, though `exec.go:192` says
  "until the stream ends".
- A stream that ends in good order with no exit frame is read as exit code 0 (`exec.go:68-71`). The
  daemon ends none so: a session that never ran ends in an error.
- An aborted connection reaches the far side as a clean end: `CopyEnds` half-closes whether its
  read ended or failed.
- Two host ports for one sandbox port are accepted and not served: the forwarder listens on the
  sandbox's port once for each (`ports.go:59-65`), the second listen fails, and the relay exits, after
  Publish, which "makes a sandbox's ports reachable" (`ports.go:69`), has reported success.
- `tunnel` says "until either side is done" (`proxy.go:225`) and waits for both.
- The relay closes its listeners on a signal "rather than exiting out from under connections in
  flight" (`plbx-relay/main.go:101-102`); nothing waits for those connections, and they are cut.
- `ssh-proxy` does not end when the gateway is gone: it waits for its standard input as well.
- What an HTTP client sent along with its CONNECT is dropped with `Hijack`'s buffer (`proxy.go:115-117`).

*Commands*

- A lookup by path that meets a record just removed reports that there is no sandbox
  (`direct.go:242-250`), and `run` makes a second one for the workspace (`run.go:126-131`), though
  `run.go:24-25` says that the existing one is reattached. `SessionIsOurs` is about runs during
  which nothing is removed. For the same reason one removal fails a whole `ls`.
- Two `plbx ports` that overlap lose one of the edits: each publishes the whole set it read and edited.
- `applyPorts` is documented for a port published twice with different sandbox ports, "the last
  one" counting (`ports.go:94-95`); within one command `parsePorts` refuses it.
- A working directory is cut at its colon: with no path given it is read as an argument
  (`spec.go:138-143`), and `run` in `/a:ro` makes a sandbox of `/a`, if that is a directory, though
  `spec.go:130-131` says that the workspace is where plbx was invoked. Hence the assumption of
  `SessionsAreOurs`, and what `ArgumentsMean` excepts.
- An error with two sentinels keeps only the first in the table on its way over the socket.

## 7. What is not modelled

- Stats, PullImage and Copy as data: no state of the service depends on what they carry. The
  commands that call them are in `Commands`.
- The arguments that runtime commands are given, other than mounts, ports and the environment, the
  parsing of what they print, and how a runtime is found (`detect.go`).
- The ssh protocol, its keys and the contents of the host key; the edit that `plbx ssh setup` makes
  to the user's ssh configuration.
- A crash of the host: `store` replaces its files atomically, and what a file system makes of that
  is beyond the code.
- The dashboard's rendering, panes, help, status line, samples' numbers, attach and quit.
- A daemon that is replaced under a dashboard (`Feed` and `Dashboard` keep one), and an edit of the
  policy by a client that has lost its daemon: section 6 has what happens.
- `internal/doctor` reads and prints; `internal/ui`, completion and flag parsing are wording and
  layout.
- `internal/api/rpc/plbxv1` is generated.

## 8. Plan

Written, in order: `Sandboxes` with `Catalogue`; `Daemon`; `Policy` and `Proxy`; `Feed`;
`Dashboard`; proofs about the first three; `Exec` with `Session`; `Tunnel`; `Wire`, `Arguments` and
`Commands`; proofs about what the service delivers, who serves, the feed, the tunnel, the
dashboard, the session and the commands.

What would come next, by importance:

1. A daemon that is replaced, in `Feed`: the panel, the sequence number, and the reads in flight.
2. `Commands` over `Catalogue` instead of its own sandboxes, with two editors of ports.
3. The ssh configuration that `plbx ssh setup` edits, as an operator over lines.
